---- MODULE Spec2Model ----
(***************************************************************************)
(* action-lite: a file-based task tracker.  Actions are markdown documents *)
(* grouped in project directories under a workspace root.                  *)
(*                                                                         *)
(* Text is modelled character by character: a string is a sequence of      *)
(* one-character strings, so that splitting into lines, trimming, case     *)
(* folding and prefix tests do what the Rust string methods do.            *)
(***************************************************************************)
EXTENDS Integers, Sequences, FiniteSets, TLC

VARIABLES
    fs,      \* the file system under the workspace root
    ws,      \* the Workspace value the caller holds (None before init/load)
    clock,   \* what Utc::now() returns
    nextId,  \* the next Uuid that Uuid::new_v4() returns
    res,     \* the result of the last Workspace operation
    steps,   \* how many Workspace operations have run
    call     \* a call of a pure function: [fn, arg, ret, done]

vars == <<fs, ws, clock, nextId, res, steps, call>>

(***************************************************************************)
(* Option<T> and Result<T, E>                                              *)
(***************************************************************************)
None == <<>>
Some(x) == <<x>>
IsSome(o) == o # <<>>
Unwrap(o) == o[1]

Ok(v) == [ok |-> TRUE, val |-> v, err |-> "none"]
Err(e) == [ok |-> FALSE, val |-> <<>>, err |-> e]

(***************************************************************************)
(* Strings                                                                 *)
(***************************************************************************)
UpperChars == <<"A","B","C","D","E","F","G","H","I","J","K","L","M",
                "N","O","P","Q","R","S","T","U","V","W","X","Y","Z">>
LowerChars == <<"a","b","c","d","e","f","g","h","i","j","k","l","m",
                "n","o","p","q","r","s","t","u","v","w","x","y","z">>
DigitChars == <<"0","1","2","3","4","5","6","7","8","9">>

\* char::is_whitespace, on the characters the model uses
IsWhitespace(c) == c \in {" ", "\n", "\t"}

\* char::to_lowercase, on ASCII
LowerChar(c) ==
    IF \E i \in 1..26 : UpperChars[i] = c
    THEN LowerChars[CHOOSE i \in 1..26 : UpperChars[i] = c]
    ELSE c

UpperChar(c) ==
    IF \E i \in 1..26 : LowerChars[i] = c
    THEN UpperChars[CHOOSE i \in 1..26 : LowerChars[i] = c]
    ELSE c

\* char::to_lowercase as a string: "U+0130", LATIN CAPITAL LETTER I WITH DOT
\* ABOVE, is the one character whose lower case is two characters, "i" and
\* "U+0307", COMBINING DOT ABOVE
LowerSeq(c) == IF c = "U+0130" THEN <<"i", "U+0307">> ELSE <<LowerChar(c)>>

RECURSIVE LowerFrom(_)
LowerFrom(s) == IF s = <<>> THEN <<>> ELSE LowerSeq(s[1]) \o LowerFrom(Tail(s))

\* str::to_lowercase
to_lowercase(s) ==
    IF \A i \in 1..Len(s) : s[i] # "U+0130"
    THEN [i \in 1..Len(s) |-> LowerChar(s[i])]
    ELSE LowerFrom(s)

\* str::replace(from, to) for one-character patterns
replace(s, from, to) == [i \in 1..Len(s) |-> IF s[i] = from THEN to ELSE s[i]]

\* str::starts_with
starts_with(s, p) == Len(s) >= Len(p) /\ SubSeq(s, 1, Len(p)) = p

\* the least member of a non-empty set of integers
Min(S) == CHOOSE x \in S : \A y \in S : x <= y

\* str::trim: drops leading and trailing whitespace
trim(s) ==
    IF \A i \in 1..Len(s) : IsWhitespace(s[i]) THEN <<>>
    ELSE LET first == CHOOSE i \in 1..Len(s) :
                          /\ ~IsWhitespace(s[i])
                          /\ \A j \in 1..(i - 1) : IsWhitespace(s[j])
             last == CHOOSE i \in 1..Len(s) :
                         /\ ~IsWhitespace(s[i])
                         /\ \A j \in (i + 1)..Len(s) : IsWhitespace(s[j])
         IN  SubSeq(s, first, last)

\* position of the first occurrence of character c in s, 0 if none
Find(s, c) ==
    IF \A i \in 1..Len(s) : s[i] # c THEN 0
    ELSE CHOOSE i \in 1..Len(s) : s[i] = c /\ \A j \in 1..(i - 1) : s[j] # c

\* position of the last occurrence of character c in s, 0 if none
RFind(s, c) ==
    IF \A i \in 1..Len(s) : s[i] # c THEN 0
    ELSE CHOOSE i \in 1..Len(s) : s[i] = c /\ \A j \in (i + 1)..Len(s) : s[j] # c

\* str::split_once(c): the parts before and after the first c
split_once(s, c) ==
    LET k == Find(s, c)
    IN  IF k = 0 THEN None
        ELSE Some(<<SubSeq(s, 1, k - 1), SubSeq(s, k + 1, Len(s))>>)

\* str::lines: split at "\n"; a final line needs no terminator and a
\* trailing terminator opens no further line
RECURSIVE LinesFrom(_, _, _)
LinesFrom(s, i, newlines) ==
    IF i > Len(s) THEN <<>>
    ELSE LET rest == {k \in newlines : k >= i}
         IN  IF rest = {} THEN <<SubSeq(s, i, Len(s))>>
             ELSE <<SubSeq(s, i, Min(rest) - 1)>> \o LinesFrom(s, Min(rest) + 1, rest)

lines(s) == LinesFrom(s, 1, {k \in 1..Len(s) : s[k] = "\n"})

\* HashMap::insert on a map held as a function
Insert(m, k, v) == [x \in (DOMAIN m) \cup {k} |-> IF x = k THEN v ELSE m[x]]

\* HashMap::get
Get(m, k) == IF k \in DOMAIN m THEN Some(m[k]) ELSE None

EmptyMap == <<>>

(***************************************************************************)
(* status.rs                                                               *)
(***************************************************************************)
Status == {"Discovery", "Design", "Implement", "Test", "Document",
           "Publish", "Published"}

S_discovery == <<"d","i","s","c","o","v","e","r","y">>
S_design    == <<"d","e","s","i","g","n">>
S_implement == <<"i","m","p","l","e","m","e","n","t">>
S_test      == <<"t","e","s","t">>
S_document  == <<"d","o","c","u","m","e","n","t">>
S_publish   == <<"p","u","b","l","i","s","h">>
S_published == <<"p","u","b","l","i","s","h","e","d">>

S_Title  == <<"T","i","t","l","e">>
S_Notes  == <<"N","o","t","e","s">>
S_StatementOfAction ==
    <<"S","t","a","t","e","m","e","n","t"," ","o","f"," ","A","c","t","i","o","n">>
S_StatementOfInputs ==
    <<"S","t","a","t","e","m","e","n","t"," ","o","f"," ","I","n","p","u","t","s">>
S_StatementOfSpecifications ==
    <<"S","t","a","t","e","m","e","n","t"," ","o","f"," ",
      "S","p","e","c","i","f","i","c","a","t","i","o","n","s">>
S_StatementOfDesign ==
    <<"S","t","a","t","e","m","e","n","t"," ","o","f"," ","D","e","s","i","g","n">>
S_AnalysisOfImpact ==
    <<"A","n","a","l","y","s","i","s"," ","o","f"," ","I","m","p","a","c","t">>

\* impl Display for Status
StatusToString(st) ==
    CASE st = "Discovery" -> S_discovery
      [] st = "Design"    -> S_design
      [] st = "Implement" -> S_implement
      [] st = "Test"      -> S_test
      [] st = "Document"  -> S_document
      [] st = "Publish"   -> S_publish
      [] st = "Published" -> S_published

\* a from_str that compares without folding case
from_str_CaseSensitive(s) ==
    LET l == s
    IN  CASE l = S_discovery -> Ok("Discovery")
          [] l = S_design    -> Ok("Design")
          [] l = S_implement -> Ok("Implement")
          [] l = S_test      -> Ok("Test")
          [] l = S_document  -> Ok("Document")
          [] l = S_publish   -> Ok("Publish")
          [] l = S_published -> Ok("Published")
          [] OTHER           -> Err("InvalidStatus")

\* Status::from_str
from_str(s) ==
    LET l == to_lowercase(s)
    IN  CASE l = S_discovery -> Ok("Discovery")
          [] l = S_design    -> Ok("Design")
          [] l = S_implement -> Ok("Implement")
          [] l = S_test      -> Ok("Test")
          [] l = S_document  -> Ok("Document")
          [] l = S_publish   -> Ok("Publish")
          [] l = S_published -> Ok("Published")
          [] OTHER           -> Err("InvalidStatus")

\* a next_status that skips Test
next_status_SkipTest(st) ==
    CASE st = "Discovery" -> Some("Design")
      [] st = "Design"    -> Some("Implement")
      [] st = "Implement" -> Some("Document")
      [] st = "Test"      -> Some("Document")
      [] st = "Document"  -> Some("Publish")
      [] st = "Publish"   -> Some("Published")
      [] st = "Published" -> None

\* a next_status that goes back from Test to Implement
next_status_Loop(st) ==
    CASE st = "Discovery" -> Some("Design")
      [] st = "Design"    -> Some("Implement")
      [] st = "Implement" -> Some("Test")
      [] st = "Test"      -> Some("Implement")
      [] st = "Document"  -> Some("Publish")
      [] st = "Publish"   -> Some("Published")
      [] st = "Published" -> None

\* Status::next_status
next_status(st) ==
    CASE st = "Discovery" -> Some("Design")
      [] st = "Design"    -> Some("Implement")
      [] st = "Implement" -> Some("Test")
      [] st = "Test"      -> Some("Document")
      [] st = "Document"  -> Some("Publish")
      [] st = "Publish"   -> Some("Published")
      [] st = "Published" -> None

\* Status::previous_status
previous_status(st) ==
    CASE st = "Discovery" -> None
      [] st = "Design"    -> Some("Discovery")
      [] st = "Implement" -> Some("Design")
      [] st = "Test"      -> Some("Implement")
      [] st = "Document"  -> Some("Test")
      [] st = "Publish"   -> Some("Document")
      [] st = "Published" -> Some("Publish")

\* a required_outputs that asks Document for nothing
required_outputs_NoDocument(st) ==
    CASE st = "Discovery" -> <<S_Title, S_Notes, S_StatementOfAction,
                               S_StatementOfInputs, S_StatementOfSpecifications>>
      [] st = "Design"    -> <<S_StatementOfDesign>>
      [] st = "Implement" -> <<>>
      [] st = "Test"      -> <<>>
      [] st = "Document"  -> <<>>
      [] st = "Publish"   -> <<>>
      [] st = "Published" -> <<>>

\* a required_outputs that also asks for the outputs of the earlier statuses
required_outputs_Cumulative(st) ==
    LET discovery == <<S_Title, S_Notes, S_StatementOfAction,
                        S_StatementOfInputs, S_StatementOfSpecifications>>
        design == discovery \o <<S_StatementOfDesign>>
    IN  CASE st = "Discovery" -> discovery
          [] st = "Design"    -> design
          [] st = "Implement" -> design
          [] st = "Test"      -> design
          [] st = "Document"  -> design \o <<S_AnalysisOfImpact>>
          [] st = "Publish"   -> design \o <<S_AnalysisOfImpact>>
          [] st = "Published" -> design \o <<S_AnalysisOfImpact>>

\* Status::required_outputs
required_outputs(st) ==
    CASE st = "Discovery" -> <<S_Title, S_Notes, S_StatementOfAction,
                               S_StatementOfInputs, S_StatementOfSpecifications>>
      [] st = "Design"    -> <<S_StatementOfDesign>>
      [] st = "Implement" -> <<>>
      [] st = "Test"      -> <<>>
      [] st = "Document"  -> <<S_AnalysisOfImpact>>
      [] st = "Publish"   -> <<>>
      [] st = "Published" -> <<>>

\* impl Default for Status
StatusDefault == "Discovery"

(***************************************************************************)
(* utils.rs                                                                *)
(***************************************************************************)
\* char::is_alphanumeric on the characters of the model: the ASCII letters
\* and digits, "U+0130" and the CJK letter "U+4F60" are alphanumeric; the
\* combining mark "U+0307" and the punctuation are not
IsAlphanumeric(c) ==
    \/ \E i \in 1..26 : c = UpperChars[i] \/ c = LowerChars[i]
    \/ \E i \in 1..10 : c = DigitChars[i]
    \/ c \in {"U+0130", "U+4F60"}

\* title_to_filename
title_to_filename(title) ==
    to_lowercase([i \in 1..Len(title) |->
        LET c == title[i]
        IN  CASE c = " " -> "_"
              [] c \in {"/", "\\", ":", "*", "?", "\"", "<", ">", "|"} -> "-"
              [] IsAlphanumeric(c) \/ c \in {"-", "_", "."} -> c
              [] OTHER -> "_"])

(***************************************************************************)
(* parser.rs                                                               *)
(***************************************************************************)
S_Dashes == <<"-","-","-">>
S_HeaderPrefix == <<"#","#"," ">>

\* a frontmatter loop that splits a line at its last ':'
RECURSIVE FrontmatterLoop_LastColon(_, _, _)
FrontmatterLoop_LastColon(ls, i, metadata) ==
    IF i <= Len(ls) /\ trim(ls[i]) # S_Dashes
    THEN LET line == trim(ls[i])
             k == RFind(line, ":")
         IN  FrontmatterLoop_LastColon(ls, i + 1,
                 IF k # 0
                 THEN Insert(metadata, trim(SubSeq(line, 1, k - 1)),
                             trim(SubSeq(line, k + 1, Len(line))))
                 ELSE metadata)
    ELSE [metadata |-> metadata, i |-> IF i <= Len(ls) THEN i + 1 ELSE i]

\* a frontmatter loop that also ends at a "## " header line, which it leaves
\* to the section loop
RECURSIVE FrontmatterLoop_StopAtHeader(_, _, _)
FrontmatterLoop_StopAtHeader(ls, i, metadata) ==
    IF i <= Len(ls) /\ trim(ls[i]) # S_Dashes /\ ~starts_with(ls[i], S_HeaderPrefix)
    THEN LET line == trim(ls[i])
             kv == split_once(line, ":")
         IN  FrontmatterLoop_StopAtHeader(ls, i + 1,
                 IF IsSome(kv)
                 THEN Insert(metadata, trim(Unwrap(kv)[1]), trim(Unwrap(kv)[2]))
                 ELSE metadata)
    ELSE [metadata |-> metadata,
          i |-> IF i <= Len(ls) /\ trim(ls[i]) = S_Dashes THEN i + 1 ELSE i]

\* the frontmatter loop of MarkdownParser::parse: lines i.. up to the closing
\* "---" (or the end of the text); yields the metadata and the line after
RECURSIVE FrontmatterLoop(_, _, _)
FrontmatterLoop(ls, i, metadata) ==
    IF i <= Len(ls) /\ trim(ls[i]) # S_Dashes
    THEN LET line == trim(ls[i])
             kv == split_once(line, ":")
         IN  FrontmatterLoop(ls, i + 1,
                 IF IsSome(kv)
                 THEN Insert(metadata, trim(Unwrap(kv)[1]), trim(Unwrap(kv)[2]))
                 ELSE metadata)
    ELSE [metadata |-> metadata, i |-> IF i <= Len(ls) THEN i + 1 ELSE i]

\* a section loop in which the first occurrence of a name wins
RECURSIVE SectionLoop_FirstWins(_, _, _, _, _)
SectionLoop_FirstWins(ls, i, current_section, section_content, sections) ==
    LET put(m, k, v) == IF k \in DOMAIN m THEN m ELSE Insert(m, k, v)
    IN  IF i <= Len(ls)
        THEN LET line == ls[i]
             IN  IF starts_with(line, S_HeaderPrefix)
                 THEN SectionLoop_FirstWins(ls, i + 1,
                          Some(trim(SubSeq(line, 4, Len(line)))),
                          IF IsSome(current_section) THEN <<>> ELSE section_content,
                          IF IsSome(current_section)
                          THEN put(sections, Unwrap(current_section), trim(section_content))
                          ELSE sections)
                 ELSE IF IsSome(current_section)
                 THEN SectionLoop_FirstWins(ls, i + 1, current_section,
                          section_content \o line \o <<"\n">>, sections)
                 ELSE SectionLoop_FirstWins(ls, i + 1, current_section,
                          section_content, sections)
        ELSE IF IsSome(current_section)
             THEN put(sections, Unwrap(current_section), trim(section_content))
             ELSE sections

\* the section loop of MarkdownParser::parse
RECURSIVE SectionLoop(_, _, _, _, _)
SectionLoop(ls, i, current_section, section_content, sections) ==
    IF i <= Len(ls)
    THEN LET line == ls[i]
         IN  IF starts_with(line, S_HeaderPrefix)
             THEN SectionLoop(ls, i + 1,
                      Some(trim(SubSeq(line, 4, Len(line)))),
                      IF IsSome(current_section) THEN <<>> ELSE section_content,
                      IF IsSome(current_section)
                      THEN Insert(sections, Unwrap(current_section), trim(section_content))
                      ELSE sections)
             ELSE IF IsSome(current_section)
             THEN SectionLoop(ls, i + 1, current_section,
                      section_content \o line \o <<"\n">>, sections)
             ELSE SectionLoop(ls, i + 1, current_section, section_content, sections)
    ELSE IF IsSome(current_section)
         THEN Insert(sections, Unwrap(current_section), trim(section_content))
         ELSE sections

\* MarkdownParser::parse
parse(content) ==
    LET ls == lines(content)
        front == IF 1 <= Len(ls) /\ trim(ls[1]) = S_Dashes
                 THEN FrontmatterLoop(ls, 2, EmptyMap)
                 ELSE [metadata |-> EmptyMap, i |-> 1]
    IN  Ok([metadata |-> front.metadata,
            sections |-> SectionLoop(ls, front.i, None, <<>>, EmptyMap)])

(***************************************************************************)
(* action.rs                                                               *)
(***************************************************************************)
S_id         == <<"i","d">>
S_status     == <<"s","t","a","t","u","s">>
S_priority   == <<"p","r","i","o","r","i","t","y">>
S_created_at == <<"c","r","e","a","t","e","d","_","a","t">>
S_updated_at == <<"u","p","d","a","t","e","d","_","a","t">>
S_true       == <<"t","r","u","e">>
S_untitled   == <<"u","n","t","i","t","l","e","d">>
S_unknown    == <<"u","n","k","n","o","w","n">>
S_md         == <<"m","d">>

\* Uuid's Display: the textual form of the n-th generated Uuid
UuidToString(n) == <<"0", "-", DigitChars[n + 1]>>

\* Uuid::parse_str(..).ok()
UuidParse(s) ==
    IF \E n \in 0..9 : UuidToString(n) = s
    THEN Some(CHOOSE n \in 0..9 : UuidToString(n) = s)
    ELSE None

\* DateTime::to_rfc3339: the textual form of instant t (it contains ':')
to_rfc3339(t) == <<"T", "0", ":", DigitChars[t + 1]>>

\* DateTime::parse_from_rfc3339(..).ok()
parse_from_rfc3339(s) ==
    IF \E t \in 0..9 : to_rfc3339(t) = s
    THEN Some(CHOOSE t \in 0..9 : to_rfc3339(t) = s)
    ELSE None

\* Path::file_stem and Path::extension of a file name
FileStem(name) ==
    LET k == RFind(name, ".")
    IN  IF k <= 1 THEN name ELSE SubSeq(name, 1, k - 1)

Extension(name) ==
    LET k == RFind(name, ".")
    IN  IF k <= 1 THEN None ELSE Some(SubSeq(name, k + 1, Len(name)))

\* Action::new
ActionNew(project, title, priority, id, now) ==
    [id |-> id, title |-> title, project |-> project,
     status |-> StatusDefault, priority |-> priority,
     created_at |-> now, updated_at |-> now, file_path |-> <<>>,
     notes |-> None, statement_of_action |-> None,
     statement_of_inputs |-> None, statement_of_design |-> None,
     analysis_of_impact |-> None]

\* one "## <name>" block of Action::to_markdown
RenderSection(name, section) ==
    IF IsSome(section)
    THEN S_HeaderPrefix \o name \o <<"\n", "\n">> \o Unwrap(section) \o <<"\n", "\n">>
    ELSE <<>>

\* Action::to_markdown
to_markdown(a) ==
    S_Dashes \o <<"\n">>
    \o S_id \o <<":", " ">> \o UuidToString(a.id) \o <<"\n">>
    \o S_created_at \o <<":", " ">> \o to_rfc3339(a.created_at) \o <<"\n">>
    \o S_updated_at \o <<":", " ">> \o to_rfc3339(a.updated_at) \o <<"\n">>
    \o S_Dashes \o <<"\n", "\n">>
    \o <<"#", " ">> \o a.title \o <<"\n", "\n">>
    \o <<"#","p","r","o","j","e","c","t"," ","#">>
    \o to_lowercase(replace(a.project, " ", "-"))
    \o <<" ", "#">> \o StatusToString(a.status)
    \o (IF a.priority THEN <<" ","#","p","r","i","o","r","i","t","y">> ELSE <<>>)
    \o <<"\n", "\n">>
    \o RenderSection(S_Notes, a.notes)
    \o RenderSection(S_StatementOfAction, a.statement_of_action)
    \o RenderSection(S_StatementOfInputs, a.statement_of_inputs)
    \o RenderSection(S_StatementOfDesign, a.statement_of_design)
    \o RenderSection(S_AnalysisOfImpact, a.analysis_of_impact)

S_title == <<"t","i","t","l","e">>
S_project == <<"p","r","o","j","e","c","t">>

\* a from_file that lets the frontmatter name the title and the project
from_file_TitleFromMetadata(content, path, freshId, now) ==
    LET parsed == parse(content).val
        metadata == parsed.metadata
        sections == parsed.sections
        id == IF IsSome(Get(metadata, S_id)) THEN UuidParse(metadata[S_id]) ELSE None
        status == IF IsSome(Get(metadata, S_status))
                  THEN from_str(metadata[S_status])
                  ELSE Err("absent")
        created == IF IsSome(Get(metadata, S_created_at))
                   THEN parse_from_rfc3339(metadata[S_created_at])
                   ELSE None
        updated == IF IsSome(Get(metadata, S_updated_at))
                   THEN parse_from_rfc3339(metadata[S_updated_at])
                   ELSE None
    IN  [id |-> IF IsSome(id) THEN Unwrap(id) ELSE freshId,
         title |-> IF IsSome(Get(metadata, S_title)) THEN metadata[S_title]
                   ELSE FileStem(path[2]),
         project |-> IF IsSome(Get(metadata, S_project)) THEN metadata[S_project]
                     ELSE path[1],
         status |-> IF status.ok THEN status.val ELSE StatusDefault,
         priority |-> IF IsSome(Get(metadata, S_priority))
                      THEN to_lowercase(metadata[S_priority]) = S_true
                      ELSE FALSE,
         created_at |-> IF IsSome(created) THEN Unwrap(created) ELSE now,
         updated_at |-> IF IsSome(updated) THEN Unwrap(updated) ELSE now,
         file_path |-> path,
         notes |-> Get(sections, S_Notes),
         statement_of_action |-> Get(sections, S_StatementOfAction),
         statement_of_inputs |-> Get(sections, S_StatementOfInputs),
         statement_of_design |-> Get(sections, S_StatementOfDesign),
         analysis_of_impact |-> Get(sections, S_AnalysisOfImpact)]

\* a from_file that takes both timestamps from the file or neither
from_file_TimestampsTogether(content, path, freshId, now) ==
    LET parsed == parse(content).val
        metadata == parsed.metadata
        sections == parsed.sections
        id == IF IsSome(Get(metadata, S_id)) THEN UuidParse(metadata[S_id]) ELSE None
        status == IF IsSome(Get(metadata, S_status))
                  THEN from_str(metadata[S_status])
                  ELSE Err("absent")
        created == IF IsSome(Get(metadata, S_created_at))
                   THEN parse_from_rfc3339(metadata[S_created_at])
                   ELSE None
        updated == IF IsSome(Get(metadata, S_updated_at))
                   THEN parse_from_rfc3339(metadata[S_updated_at])
                   ELSE None
    IN  [id |-> IF IsSome(id) THEN Unwrap(id) ELSE freshId,
         title |-> FileStem(path[2]),
         project |-> path[1],
         status |-> IF status.ok THEN status.val ELSE StatusDefault,
         priority |-> IF IsSome(Get(metadata, S_priority))
                      THEN to_lowercase(metadata[S_priority]) = S_true
                      ELSE FALSE,
         created_at |-> IF IsSome(created) /\ IsSome(updated)
                       THEN Unwrap(created) ELSE now,
         updated_at |-> IF IsSome(created) /\ IsSome(updated)
                       THEN Unwrap(updated) ELSE now,
         file_path |-> path,
         notes |-> Get(sections, S_Notes),
         statement_of_action |-> Get(sections, S_StatementOfAction),
         statement_of_inputs |-> Get(sections, S_StatementOfInputs),
         statement_of_design |-> Get(sections, S_StatementOfDesign),
         analysis_of_impact |-> Get(sections, S_AnalysisOfImpact)]

\* Action::from_file on a file that was read: path = <<directory, file name>>,
\* freshId and now are what Uuid::new_v4() and Utc::now() return if called
from_file(content, path, freshId, now) ==
    LET parsed == parse(content).val
        metadata == parsed.metadata
        sections == parsed.sections
        id == IF IsSome(Get(metadata, S_id)) THEN UuidParse(metadata[S_id]) ELSE None
        status == IF IsSome(Get(metadata, S_status))
                  THEN from_str(metadata[S_status])
                  ELSE Err("absent")
        created == IF IsSome(Get(metadata, S_created_at))
                   THEN parse_from_rfc3339(metadata[S_created_at])
                   ELSE None
        updated == IF IsSome(Get(metadata, S_updated_at))
                   THEN parse_from_rfc3339(metadata[S_updated_at])
                   ELSE None
    IN  [id |-> IF IsSome(id) THEN Unwrap(id) ELSE freshId,
         title |-> FileStem(path[2]),
         project |-> path[1],
         status |-> IF status.ok THEN status.val ELSE StatusDefault,
         priority |-> IF IsSome(Get(metadata, S_priority))
                      THEN to_lowercase(metadata[S_priority]) = S_true
                      ELSE FALSE,
         created_at |-> IF IsSome(created) THEN Unwrap(created) ELSE now,
         updated_at |-> IF IsSome(updated) THEN Unwrap(updated) ELSE now,
         file_path |-> path,
         notes |-> Get(sections, S_Notes),
         statement_of_action |-> Get(sections, S_StatementOfAction),
         statement_of_inputs |-> Get(sections, S_StatementOfInputs),
         statement_of_design |-> Get(sections, S_StatementOfDesign),
         analysis_of_impact |-> Get(sections, S_AnalysisOfImpact)]

\* whether from_file draws a fresh Uuid for this content
NeedsFreshId(content) ==
    LET metadata == parse(content).val.metadata
    IN  ~(IsSome(Get(metadata, S_id)) /\ IsSome(UuidParse(metadata[S_id])))

\* a set_status that only moves to the next status
set_status_AdjacentOnly(a, status, now) ==
    IF next_status(a.status) = Some(status)
    THEN [a EXCEPT !.status = status, !.updated_at = now]
    ELSE [a EXCEPT !.updated_at = now]

\* Action::set_status
set_status(a, status, now) == [a EXCEPT !.status = status, !.updated_at = now]

\* Action::set_priority
set_priority(a, priority, now) == [a EXCEPT !.priority = priority, !.updated_at = now]

\* an update_section that puts the content of an unknown name into notes
update_section_UnknownIsNotes(a, section, content, now) ==
    LET l == to_lowercase(section)
        b == CASE l = to_lowercase(S_Notes) -> [a EXCEPT !.notes = content]
               [] l = to_lowercase(S_StatementOfAction) ->
                      [a EXCEPT !.statement_of_action = content]
               [] l = to_lowercase(S_StatementOfInputs) ->
                      [a EXCEPT !.statement_of_inputs = content]
               [] l = to_lowercase(S_StatementOfDesign) ->
                      [a EXCEPT !.statement_of_design = content]
               [] l = to_lowercase(S_AnalysisOfImpact) ->
                      [a EXCEPT !.analysis_of_impact = content]
               [] OTHER -> [a EXCEPT !.notes = content]
    IN  [b EXCEPT !.updated_at = now]

\* Action::update_section
update_section(a, section, content, now) ==
    LET l == to_lowercase(section)
        b == CASE l = to_lowercase(S_Notes) -> [a EXCEPT !.notes = content]
               [] l = to_lowercase(S_StatementOfAction) ->
                      [a EXCEPT !.statement_of_action = content]
               [] l = to_lowercase(S_StatementOfInputs) ->
                      [a EXCEPT !.statement_of_inputs = content]
               [] l = to_lowercase(S_StatementOfDesign) ->
                      [a EXCEPT !.statement_of_design = content]
               [] l = to_lowercase(S_AnalysisOfImpact) ->
                      [a EXCEPT !.analysis_of_impact = content]
               [] OTHER -> a
    IN  [b EXCEPT !.updated_at = now]

\* Action::meta_graph_path: file_path.with_extension("")
meta_graph_path(a) == <<a.file_path[1], FileStem(a.file_path[2])>>

\* Action::has_meta_graph: the path exists and is a directory
has_meta_graph(a, f) == meta_graph_path(a) \in f.metas

(***************************************************************************)
(* The file system under the workspace root.                               *)
(*   rootFiles : file name -> content, the files directly under the root   *)
(*   dirs      : the directories directly under the root                   *)
(*   files     : <<directory, file name>> -> content                       *)
(*   metas     : the directories <<directory, name>> inside a directory    *)
(*   writable  : whether fs::write and fs::create_dir_all succeed          *)
(***************************************************************************)
S_Marker == <<".","a","c","t","i","o","n","-","l","i","t","e">>
S_Readme == <<"R","E","A","D","M","E",".","m","d">>
S_MarkerContent ==
    <<"#"," ","A","c","t","i","o","n"," ","L","i","t","e"," ",
      "W","o","r","k","s","p","a","c","e","\n">>
\* include_str!("../templates/workspace_readme.md")
S_ReadmeContent == <<"#"," ","R","E","A","D","M","E","\n">>

EmptyFs == [root |-> FALSE, rootFiles |-> EmptyMap, dirs |-> {},
            files |-> EmptyMap, metas |-> {}, writable |-> TRUE]

\* Path::exists for a path <<directory, name>> below the root
PathExists(f, path) == path \in DOMAIN f.files \/ path \in f.metas

\* a directory outside the workspace root that exists and can be written to
S_Tmp == <<"/","t","m","p">>

\* whether a directory exists: one directly under the root, the directory of
\* a meta-graph inside one, or the one outside the root
DirExists(f, dir) ==
    \/ dir \in f.dirs
    \/ \E m \in f.metas : dir = m[1] \o <<"/">> \o m[2]
    \/ dir = S_Tmp

\* Path::join(base, name) as <<directory, file name>>: an absolute name
\* replaces the base, and the directories in a relative name extend it
PathJoin(base, name) ==
    LET k == RFind(name, "/")
    IN  IF k = 0 THEN <<base, name>>
        ELSE IF name[1] = "/"
        THEN <<IF k = 1 THEN <<"/">> ELSE SubSeq(name, 1, k - 1),
               SubSeq(name, k + 1, Len(name))>>
        ELSE <<base \o <<"/">> \o SubSeq(name, 1, k - 1),
               SubSeq(name, k + 1, Len(name))>>

\* a save that writes the Action without stamping updated_at
save_NoStamp(a, f, now) ==
    LET b == a
    IN  IF f.writable /\ b.file_path # <<>> /\ DirExists(f, b.file_path[1])
           /\ b.file_path[2] # <<>> /\ b.file_path \notin f.metas
        THEN [action |-> b, result |-> Ok(<<>>),
              fs |-> [f EXCEPT !.files = Insert(f.files, b.file_path, to_markdown(b))]]
        ELSE [action |-> b, result |-> Err("IOFailure"), fs |-> f]

\* Action::save: stamps updated_at, then writes to_markdown to file_path
save(a, f, now) ==
    LET b == [a EXCEPT !.updated_at = now]
    IN  IF f.writable /\ b.file_path # <<>> /\ DirExists(f, b.file_path[1])
           /\ b.file_path[2] # <<>> /\ b.file_path \notin f.metas
        THEN [action |-> b, result |-> Ok(<<>>),
              fs |-> [f EXCEPT !.files = Insert(f.files, b.file_path, to_markdown(b))]]
        ELSE [action |-> b, result |-> Err("IOFailure"), fs |-> f]

(***************************************************************************)
(* project.rs                                                              *)
(***************************************************************************)
S_TemplateNotes ==
    <<"G","e","n","e","r","a","l"," ","n","o","t","e","s"," ","o","n"," ",
      "t","h","e"," ","t","a","s","k">>
S_TemplateAction ==
    <<"T","h","e"," ","t","a","s","k"," ","t","o"," ","b","e"," ","p","e","r",
      "f","o","r","m","e","d",","," ","m","o","r","e"," ","i","n"," ","d","e",
      "p","t","h"," ","t","h","a","n"," ","t","i","t","l","e",","," ","m","a",
      "y"," ","i","n","c","l","u","d","e"," ","w","h","y"," ","t","h","e"," ",
      "a","c","t","i","o","n"," ","i","s"," ","n","e","e","d","e","d">>
S_TemplateInputs ==
    <<"A"," ","l","i","s","t"," ","o","f"," ",".","m","d"," ","l","i","n","k",
      "s"," ","t","o"," ","o","t","h","e","r"," ","m","a","r","k","d","o","w",
      "n"," ","f","i","l","e","s">>

\* the file name Project::create_action computes for a title
ActionFilename(title) == to_lowercase(replace(title, " ", "_")) \o <<".">> \o S_md

\* Project::new: creates the directory if it does not exist
Project_new(name, f) ==
    IF name \in f.dirs
    THEN [result |-> Ok([name |-> name, path |-> name, actions |-> EmptyMap]), fs |-> f]
    ELSE IF f.writable
    THEN [result |-> Ok([name |-> name, path |-> name, actions |-> EmptyMap]),
          fs |-> [f EXCEPT !.dirs = @ \cup {name}]]
    ELSE [result |-> Err("IOFailure"), fs |-> f]

\* the .md files of a directory, as load_actions sees them
MdFiles(f, dir) ==
    {path \in DOMAIN f.files : path[1] = dir /\ Extension(path[2]) = Some(S_md)}

\* the files from_file draws a fresh Uuid for, each with the Uuid it gets
FreshIds(f, paths, first) ==
    LET need == {path \in paths : NeedsFreshId(f.files[path])}
    IN  CHOOSE g \in [need -> first..(first + Cardinality(need) - 1)] :
            \A x, y \in need : x # y => g[x] # g[y]

\* Project::load with load_actions: the index is keyed by each action's
\* title, which from_file takes from the file name
Project_load(dir, f, ids, now) ==
    LET paths == MdFiles(f, dir)
        titles == {FileStem(path[2]) : path \in paths}
    IN  [name |-> dir, path |-> dir,
         actions |-> [t \in titles |->
             LET path == CHOOSE q \in paths : FileStem(q[2]) = t
             IN  from_file(f.files[path], path,
                           IF path \in DOMAIN ids THEN ids[path] ELSE 0, now)]]

\* a create_action whose template lacks the Statement of Inputs
Project_create_action_NoInputs(project, title, priority, f, id, now) ==
    LET filename == ActionFilename(title)
        file_path == PathJoin(project.path, filename)
        a == [ActionNew(project.name, title, priority, id, now) EXCEPT
                 !.file_path = file_path,
                 !.notes = Some(S_TemplateNotes),
                 !.statement_of_action = Some(S_TemplateAction)]
        saved == save(a, f, now)
    IN  IF PathExists(f, file_path)
        THEN [project |-> project, fs |-> f, result |-> Err("AlreadyExists"),
              made |-> FALSE]
        ELSE IF ~saved.result.ok
        THEN [project |-> project, fs |-> saved.fs, result |-> saved.result, made |-> TRUE]
        ELSE [project |-> [project EXCEPT
                              !.actions = Insert(project.actions, title, saved.action)],
              fs |-> saved.fs, result |-> Ok(saved.action), made |-> TRUE]

\* a create_action that does not look for an existing file
Project_create_action_NoGuard(project, title, priority, f, id, now) ==
    LET filename == ActionFilename(title)
        file_path == PathJoin(project.path, filename)
        a == [ActionNew(project.name, title, priority, id, now) EXCEPT
                 !.file_path = file_path,
                 !.notes = Some(S_TemplateNotes),
                 !.statement_of_action = Some(S_TemplateAction),
                 !.statement_of_inputs = Some(S_TemplateInputs)]
        saved == save(a, f, now)
    IN  IF ~saved.result.ok
        THEN [project |-> project, fs |-> saved.fs, result |-> saved.result, made |-> TRUE]
        ELSE [project |-> [project EXCEPT
                              !.actions = Insert(project.actions, title, saved.action)],
              fs |-> saved.fs, result |-> Ok(saved.action), made |-> TRUE]

\* Project::create_action; made tells whether Action::new ran
Project_create_action(project, title, priority, f, id, now) ==
    LET filename == ActionFilename(title)
        file_path == PathJoin(project.path, filename)
        a == [ActionNew(project.name, title, priority, id, now) EXCEPT
                 !.file_path = file_path,
                 !.notes = Some(S_TemplateNotes),
                 !.statement_of_action = Some(S_TemplateAction),
                 !.statement_of_inputs = Some(S_TemplateInputs)]
        saved == save(a, f, now)
    IN  IF PathExists(f, file_path)
        THEN [project |-> project, fs |-> f, result |-> Err("AlreadyExists"),
              made |-> FALSE]
        ELSE IF ~saved.result.ok
        THEN [project |-> project, fs |-> saved.fs, result |-> saved.result, made |-> TRUE]
        ELSE [project |-> [project EXCEPT
                              !.actions = Insert(project.actions, title, saved.action)],
              fs |-> saved.fs, result |-> Ok(saved.action), made |-> TRUE]

\* an update_action_status that restores the Action when the save fails
Project_update_action_status_Rollback(project, title, status, f, now) ==
    IF title \notin DOMAIN project.actions
    THEN [project |-> project, fs |-> f, result |-> Err("ActionNotFound")]
    ELSE LET saved == save(set_status(project.actions[title], status, now), f, now)
         IN  [project |-> IF saved.result.ok
                          THEN [project EXCEPT !.actions[title] = saved.action]
                          ELSE project,
              fs |-> saved.fs, result |-> saved.result]

\* Project::update_action_status
Project_update_action_status(project, title, status, f, now) ==
    IF title \notin DOMAIN project.actions
    THEN [project |-> project, fs |-> f, result |-> Err("ActionNotFound")]
    ELSE LET saved == save(set_status(project.actions[title], status, now), f, now)
         IN  [project |-> [project EXCEPT !.actions[title] = saved.action],
              fs |-> saved.fs, result |-> saved.result]

\* Project::set_action_priority
Project_set_action_priority(project, title, priority, f, now) ==
    IF title \notin DOMAIN project.actions
    THEN [project |-> project, fs |-> f, result |-> Err("ActionNotFound")]
    ELSE LET saved == save(set_priority(project.actions[title], priority, now), f, now)
         IN  [project |-> [project EXCEPT !.actions[title] = saved.action],
              fs |-> saved.fs, result |-> saved.result]

\* Project::create_meta_graph
Project_create_meta_graph(project, title, f) ==
    IF title \notin DOMAIN project.actions
    THEN [fs |-> f, result |-> Err("ActionNotFound")]
    ELSE LET meta == meta_graph_path(project.actions[title])
         IN  IF PathExists(f, meta)
             THEN [fs |-> f, result |-> Ok(meta)]
             ELSE IF f.writable
             THEN [fs |-> [f EXCEPT !.metas = @ \cup {meta}], result |-> Ok(meta)]
             ELSE [fs |-> f, result |-> Err("IOFailure")]

(***************************************************************************)
(* workspace.rs                                                            *)
(***************************************************************************)
\* the bounds of the model
MaxSteps == 4
MaxTime == 1
MaxId == 3

\* the inputs the operations are called with
ProjectNames == {<<"p">>, <<"Q"," ","r">>}
Titles == {<<"A"," ","b">>, <<"a","_","b">>}
StatusInputs == {"Design", "Document"}

Result(op, r, info) == [op |-> op, ok |-> r.ok, err |-> r.err, info |-> info]

\* an init that writes the README whether or not one exists
Workspace_init_OverwriteReadme(f) ==
    IF ~f.writable
    THEN [result |-> Err("IOFailure"), fs |-> f]
    ELSE [result |-> Ok([projects |-> EmptyMap]),
          fs |-> [f EXCEPT
                     !.root = TRUE,
                     !.rootFiles =
                         Insert(Insert(f.rootFiles, S_Marker, S_MarkerContent),
                                S_Readme, S_ReadmeContent)]]

\* Workspace::init
Workspace_init(f) ==
    IF ~f.writable
    THEN [result |-> Err("IOFailure"), fs |-> f]
    ELSE [result |-> Ok([projects |-> EmptyMap]),
          fs |-> [f EXCEPT
                     !.root = TRUE,
                     !.rootFiles =
                         LET m == Insert(f.rootFiles, S_Marker, S_MarkerContent)
                         IN  IF S_Readme \in DOMAIN m THEN m
                             ELSE Insert(m, S_Readme, S_ReadmeContent)]]

\* the directories load_projects loads as projects
ProjectDirs(f) == {d \in f.dirs : ~starts_with(d, <<".">>)}

\* a load that does not look for the marker file
Workspace_load_NoMarkerCheck(f, first, now) ==
    LET dirs == ProjectDirs(f)
        paths == UNION {MdFiles(f, d) : d \in dirs}
        ids == FreshIds(f, paths, first)
    IN  [result |-> Ok([projects |-> [d \in dirs |-> Project_load(d, f, ids, now)]]),
         used |-> Cardinality(DOMAIN ids)]

\* Workspace::load with load_projects; used counts the fresh Uuids drawn
Workspace_load(f, first, now) ==
    LET dirs == ProjectDirs(f)
        paths == UNION {MdFiles(f, d) : d \in dirs}
        ids == FreshIds(f, paths, first)
    IN  IF S_Marker \notin DOMAIN f.rootFiles
        THEN [result |-> Err("NotAWorkspace"), used |-> 0]
        ELSE [result |-> Ok([projects |-> [d \in dirs |-> Project_load(d, f, ids, now)]]),
              used |-> Cardinality(DOMAIN ids)]

\* a CheckedSection that does not know Analysis of Impact
CheckedSection_NoImpact(a, output) ==
    CASE output = S_Notes             -> Some(a.notes)
      [] output = S_StatementOfAction -> Some(a.statement_of_action)
      [] output = S_StatementOfInputs -> Some(a.statement_of_inputs)
      [] output = S_StatementOfDesign -> Some(a.statement_of_design)
      [] OTHER                        -> None

\* the section of an action that validate looks at for a required output,
\* Some(section) for the five outputs it knows and None for the others
CheckedSection(a, output) ==
    CASE output = S_Notes             -> Some(a.notes)
      [] output = S_StatementOfAction -> Some(a.statement_of_action)
      [] output = S_StatementOfInputs -> Some(a.statement_of_inputs)
      [] output = S_StatementOfDesign -> Some(a.statement_of_design)
      [] output = S_AnalysisOfImpact  -> Some(a.analysis_of_impact)
      [] OTHER                        -> None

\* the loop of validate over the required outputs of one action: the first
\* required output whose section is None, if any
RECURSIVE FirstMissing(_, _, _)
FirstMissing(a, outputs, i) ==
    IF i > Len(outputs) THEN None
    ELSE LET checked == CheckedSection(a, outputs[i])
         IN  IF IsSome(checked) /\ ~IsSome(Unwrap(checked))
             THEN Some(outputs[i])
             ELSE FirstMissing(a, outputs, i + 1)

\* what validate reports for one action, None if it passes
ActionViolation(name, a, f) ==
    IF ~PathExists(f, a.file_path)
    THEN Some([err |-> "ActionFileMissing",
               info |-> [project |-> name, title |-> a.title, section |-> <<>>]])
    ELSE LET missing == FirstMissing(a, required_outputs(a.status), 1)
         IN  IF IsSome(missing)
             THEN Some([err |-> "MissingSection",
                        info |-> [project |-> name, title |-> a.title,
                                  section |-> Unwrap(missing)]])
             ELSE None

\* the violations validate can stop at: it walks the projects and the actions
\* of each in HashMap order and reports the first violation it meets
Violations(w, f) ==
    IF S_Marker \notin DOMAIN f.rootFiles
    THEN {[err |-> "MissingMarker", info |-> <<>>]}
    ELSE UNION {
           IF w.projects[name].path \notin f.dirs
           THEN {[err |-> "ProjectDirMissing", info |-> <<>>]}
           ELSE {Unwrap(ActionViolation(name, w.projects[name].actions[t], f)) :
                   t \in {u \in DOMAIN w.projects[name].actions :
                            IsSome(ActionViolation(name, w.projects[name].actions[u], f))}}
           : name \in DOMAIN w.projects}

\* the documents the user's editor may leave in the file of action a
S_EditedFrontmatter ==
    <<"-","-","-","\n",
      "s","t","a","t","u","s",":"," ","D","o","c","u","m","e","n","t","\n",
      "p","r","i","o","r","i","t","y",":"," ","T","R","U","E","\n",
      "-","-","-","\n","\n">>

EditedDocs(a) ==
    { to_markdown([a EXCEPT !.notes = Some(<<>>)]),
      to_markdown([a EXCEPT !.notes = None]),
      S_EditedFrontmatter \o RenderSection(S_Notes, a.notes) }

\* the characters of the model in the order of their code points, which is
\* the order str::cmp compares bytes in
CodeOrder ==
    <<"\n", " ", "\"", "#", "*", "-", ".", "/">> \o DigitChars \o
    <<":", "<", ">", "?">> \o UpperChars \o <<"\\", "_">> \o LowerChars \o <<"|">>

CharCode(c) == CHOOSE i \in 1..Len(CodeOrder) : CodeOrder[i] = c

\* Ord for str: a < b, byte by byte, a proper prefix being smaller
StrLess(a, b) ==
    \E i \in 1..(Min({Len(a), Len(b)}) + 1) :
        /\ \A j \in 1..(i - 1) : a[j] = b[j]
        /\ IF i > Len(a) THEN i <= Len(b)
           ELSE i <= Len(b) /\ CharCode(a[i]) < CharCode(b[i])

\* the comparator of list_actions: project, then title; TRUE when a sorts
\* strictly before b
ListLess(a, b) ==
    \/ StrLess(a.project, b.project)
    \/ a.project = b.project /\ StrLess(a.title, b.title)

\* the orders sort_by may leave a set of actions in
SortedBy(actions) ==
    LET n == Cardinality(actions)
    IN  {q \in [1..n -> actions] :
            /\ \A x \in actions : \E i \in 1..n : q[i] = x
            /\ \A i, j \in 1..n : i < j => ~ListLess(q[j], q[i])}

\* a list_actions that returns the actions in any order
list_actions_Unsorted(w, project_filter, status_filter, priority_only) ==
    LET visited == UNION {{w.projects[p].actions[t] : t \in DOMAIN w.projects[p].actions} :
                            p \in {q \in DOMAIN w.projects :
                                     project_filter = None \/ q = Unwrap(project_filter)}}
        kept == {a \in visited :
                   /\ IsSome(status_filter) => a.status = from_str(Unwrap(status_filter)).val
                   /\ priority_only => a.priority}
        n == Cardinality(kept)
    IN  IF IsSome(status_filter) /\ visited # {} /\ ~from_str(Unwrap(status_filter)).ok
        THEN {Err("InvalidStatus")}
        ELSE {Ok(q) : q \in {r \in [1..n -> kept] : \A x \in kept : \E i \in 1..n : r[i] = x}}

\* Workspace::list_actions: the results it can return. The status filter is
\* parsed inside the loop over the actions of the projects that pass the
\* project filter, so it is parsed only if there is such an action.
list_actions(w, project_filter, status_filter, priority_only) ==
    LET visited == UNION {{w.projects[p].actions[t] : t \in DOMAIN w.projects[p].actions} :
                            p \in {q \in DOMAIN w.projects :
                                     project_filter = None \/ q = Unwrap(project_filter)}}
        kept == {a \in visited :
                   /\ IsSome(status_filter) => a.status = from_str(Unwrap(status_filter)).val
                   /\ priority_only => a.priority}
    IN  IF IsSome(status_filter) /\ visited # {} /\ ~from_str(Unwrap(status_filter)).ok
        THEN {Err("InvalidStatus")}
        ELSE {Ok(q) : q \in SortedBy(kept)}

\* Workspace::get_action
Workspace_get_action(w, project_name, title) ==
    IF project_name \notin DOMAIN w.projects THEN Err("ProjectNotFound")
    ELSE IF title \notin DOMAIN w.projects[project_name].actions
    THEN Err("ActionNotFound")
    ELSE Ok(w.projects[project_name].actions[title])

(***************************************************************************)
(* The state machine: one action per Workspace operation.                  *)
(***************************************************************************)
NoCall == [fn |-> "none", arg |-> <<>>, ret |-> <<>>, done |-> FALSE]
NoResult == [op |-> "none", ok |-> TRUE, err |-> "none", info |-> <<>>]

Init ==
    /\ fs = EmptyFs
    /\ ws = None
    /\ clock = 0
    /\ nextId = 0
    /\ res = NoResult
    /\ steps = 0
    /\ call = NoCall

Step == steps < MaxSteps /\ steps' = steps + 1

\* time passes
Tick ==
    /\ Step
    /\ clock < MaxTime
    /\ clock' = clock + 1
    /\ UNCHANGED <<fs, ws, nextId, res, call>>

\* Workspace::init(root)
init ==
    LET r == Workspace_init(fs)
    IN  /\ Step
        /\ fs' = r.fs
        /\ ws' = IF r.result.ok THEN Some(r.result.val) ELSE ws
        /\ res' = Result("init", r.result, <<>>)
        /\ UNCHANGED <<clock, nextId, call>>

\* Workspace::load(root)
load ==
    LET r == Workspace_load(fs, nextId, clock)
    IN  /\ Step
        /\ nextId + r.used <= MaxId + 1
        /\ ws' = IF r.result.ok THEN Some(r.result.val) ELSE ws
        /\ nextId' = nextId + r.used
        /\ res' = Result("load", r.result, <<>>)
        /\ UNCHANGED <<fs, clock, call>>

\* Workspace::create_action(project_name, title, priority)
create_action(project_name, title, priority) ==
    /\ Step
    /\ ws # None
    /\ nextId <= MaxId
    /\ LET w == Unwrap(ws)
           known == project_name \in DOMAIN w.projects
           new == Project_new(project_name, fs)
       IN  IF ~known /\ ~new.result.ok
           THEN /\ res' = Result("create_action", new.result, <<>>)
                /\ UNCHANGED <<fs, ws, nextId>>
           ELSE LET project == IF known THEN w.projects[project_name]
                               ELSE new.result.val
                    f == IF known THEN fs ELSE new.fs
                    r == Project_create_action(project, title, priority,
                                               f, nextId, clock)
                IN  /\ fs' = r.fs
                    /\ ws' = Some([w EXCEPT !.projects =
                                      Insert(w.projects, project_name, r.project)])
                    /\ nextId' = IF r.made THEN nextId + 1 ELSE nextId
                    /\ res' = Result("create_action", r.result, <<>>)
    /\ UNCHANGED <<clock, call>>

\* Workspace::update_action_status(project_name, title, status)
update_action_status(project_name, title, status) ==
    /\ Step
    /\ ws # None
    /\ LET w == Unwrap(ws)
       IN  IF project_name \notin DOMAIN w.projects
           THEN /\ res' = Result("update_action_status", Err("ProjectNotFound"), <<>>)
                /\ UNCHANGED <<fs, ws>>
           ELSE LET r == Project_update_action_status(w.projects[project_name],
                                                      title, status, fs, clock)
                IN  /\ fs' = r.fs
                    /\ ws' = Some([w EXCEPT !.projects[project_name] = r.project])
                    /\ res' = Result("update_action_status", r.result, <<>>)
    /\ UNCHANGED <<clock, nextId, call>>

\* Workspace::set_action_priority(project_name, title, priority)
set_action_priority(project_name, title, priority) ==
    /\ Step
    /\ ws # None
    /\ LET w == Unwrap(ws)
       IN  IF project_name \notin DOMAIN w.projects
           THEN /\ res' = Result("set_action_priority", Err("ProjectNotFound"), <<>>)
                /\ UNCHANGED <<fs, ws>>
           ELSE LET r == Project_set_action_priority(w.projects[project_name],
                                                     title, priority, fs, clock)
                IN  /\ fs' = r.fs
                    /\ ws' = Some([w EXCEPT !.projects[project_name] = r.project])
                    /\ res' = Result("set_action_priority", r.result, <<>>)
    /\ UNCHANGED <<clock, nextId, call>>

\* Workspace::create_meta_graph(project_name, title)
create_meta_graph(project_name, title) ==
    /\ Step
    /\ ws # None
    /\ LET w == Unwrap(ws)
       IN  IF project_name \notin DOMAIN w.projects
           THEN /\ res' = Result("create_meta_graph", Err("ProjectNotFound"), <<>>)
                /\ UNCHANGED fs
           ELSE LET r == Project_create_meta_graph(w.projects[project_name], title, fs)
                IN  /\ fs' = r.fs
                    /\ res' = Result("create_meta_graph", r.result, r.result.val)
    /\ UNCHANGED <<ws, clock, nextId, call>>

\* Workspace::edit_action(project_name, title): the editor rewrites the file
edit_action(project_name, title) ==
    /\ Step
    /\ ws # None
    /\ LET w == Unwrap(ws)
       IN  IF project_name \notin DOMAIN w.projects
           THEN /\ res' = Result("edit_action", Err("ProjectNotFound"), <<>>)
                /\ UNCHANGED fs
           ELSE IF title \notin DOMAIN w.projects[project_name].actions
           THEN /\ res' = Result("edit_action", Err("ActionNotFound"), <<>>)
                /\ UNCHANGED fs
           ELSE LET a == w.projects[project_name].actions[title]
                IN  \/ /\ \E doc \in EditedDocs(a) :
                              fs' = [fs EXCEPT !.files = Insert(fs.files, a.file_path, doc)]
                       /\ res' = Result("edit_action", Ok(<<>>), <<>>)
                    \/ /\ res' = Result("edit_action", Err("EditorFailed"), <<>>)
                       /\ UNCHANGED fs
    /\ UNCHANGED <<ws, clock, nextId, call>>

\* Workspace::validate()
validate ==
    /\ Step
    /\ ws # None
    /\ LET found == Violations(Unwrap(ws), fs)
       IN  IF found = {}
           THEN res' = Result("validate", Ok(<<>>), <<>>)
           ELSE \E v \in found : res' = Result("validate", Err(v.err), v.info)
    /\ UNCHANGED <<fs, ws, clock, nextId, call>>

\* the Workspace operations, called with projects P, titles T and statuses S
Operations(P, T, S) ==
    \/ init
    \/ load
    \/ \E p \in P, t \in T, priority \in BOOLEAN : create_action(p, t, priority)
    \/ \E p \in P, t \in T, st \in S : update_action_status(p, t, st)
    \/ \E p \in P, t \in T, priority \in BOOLEAN : set_action_priority(p, t, priority)
    \/ \E p \in P, t \in T : create_meta_graph(p, t)
    \/ \E p \in P, t \in T : edit_action(p, t)
    \/ validate

Next == Tick \/ Operations(ProjectNames, Titles, StatusInputs)

Spec == Init /\ [][Next]_vars

\* the state after Workspace::init on an empty directory
InitReady ==
    /\ fs = Workspace_init(EmptyFs).fs
    /\ ws = Some(Workspace_init(EmptyFs).result.val)
    /\ clock = 0
    /\ nextId = 0
    /\ res = Result("init", Workspace_init(EmptyFs).result, <<>>)
    /\ steps = 0
    /\ call = NoCall

\* one project and one action, edited, reloaded and validated
EditProjects == {<<"p">>}
EditTitles == {<<"a","_","b">>}

NextEdit == Tick \/ Operations(EditProjects, EditTitles, StatusInputs)

SpecEdit == InitReady /\ [][NextEdit]_vars

\* one project and one action, moved between all the statuses
NextTransitions == Tick \/ Operations(EditProjects, EditTitles, Status)

SpecTransitions == InitReady /\ [][NextTransitions]_vars

\* Workspace::list_actions(project_filter, status_filter, priority_only)
call_list_actions(project_filter, status_filter, priority_only) ==
    /\ Step
    /\ ws # None
    /\ \E r \in list_actions(Unwrap(ws), project_filter, status_filter, priority_only) :
           res' = Result("list_actions", r,
                         [project_filter |-> project_filter,
                          status_filter |-> status_filter,
                          priority_only |-> priority_only,
                          actions |-> r.val])
    /\ UNCHANGED <<fs, ws, clock, nextId, call>>

\* two projects and two titles that make different files, listed
ListTitles == {<<"B">>, <<"a">>}
ProjectFilters == {None, Some(<<"p">>), Some(<<"z">>)}
StatusFilters == {None, Some(<<"D","e","s","i","g","n">>), Some(S_discovery),
                  Some(<<"d","o","n","e">>)}

NextList ==
    \/ \E p \in ProjectNames, t \in ListTitles, priority \in BOOLEAN :
           create_action(p, t, priority)
    \/ \E p \in ProjectNames, t \in ListTitles : update_action_status(p, t, "Design")
    \/ \E pf \in ProjectFilters, sf \in StatusFilters, po \in BOOLEAN :
           call_list_actions(pf, sf, po)

SpecList == InitReady /\ [][NextList]_vars

\* one project, and titles of which one is an absolute path
PathTitles == {<<"a","_","b">>, <<"/","t","m","p","/","x">>}

NextPaths == Tick \/ Operations(EditProjects, PathTitles, StatusInputs)

SpecPaths == InitReady /\ [][NextPaths]_vars

\* one project, and two titles of which the second names the file of the first
MetaTitles == {<<"a","_","b">>, <<"a","_","b",".","m","d">>}

NextMeta == Tick \/ Operations(EditProjects, MetaTitles, StatusInputs)

SpecMeta == InitReady /\ [][NextMeta]_vars

\* Workspace::get_action(project_name, title)
get_action(project_name, title) ==
    /\ Step
    /\ ws # None
    /\ LET r == Workspace_get_action(Unwrap(ws), project_name, title)
       IN  res' = Result("get_action", r, r.val)
    /\ UNCHANGED <<fs, ws, clock, nextId, call>>

\* actions created, the workspace reloaded and validated, and the actions
\* looked up by the names they were created with
ReloadProjects == {<<"p">>, <<".","h">>}

NextReload ==
    \/ load
    \/ \E p \in ReloadProjects, t \in Titles, priority \in BOOLEAN :
           create_action(p, t, priority)
    \/ \E p \in ReloadProjects, t \in Titles : get_action(p, t)
    \/ validate

SpecReload == InitReady /\ [][NextReload]_vars

\* a workspace loaded from a root that holds one action file, written by
\* the user with a status and any of the five sections
InitValidate ==
    \E st \in Status, present \in SUBSET {S_Notes, S_StatementOfAction,
                                          S_StatementOfInputs, S_StatementOfDesign,
                                          S_AnalysisOfImpact} :
        LET section(name) ==
                RenderSection(name, IF name \in present THEN Some(<<"x">>) ELSE None)
            doc == S_Dashes \o <<"\n">> \o S_status \o <<":", " ">>
                   \o StatusToString(st) \o <<"\n">> \o S_Dashes \o <<"\n", "\n">>
                   \o section(S_Notes) \o section(S_StatementOfAction)
                   \o section(S_StatementOfInputs) \o section(S_StatementOfDesign)
                   \o section(S_AnalysisOfImpact)
            f == [Workspace_init(EmptyFs).fs EXCEPT
                     !.dirs = {<<"p">>},
                     !.files = (<<<<"p">>, <<"a","_","b",".","m","d">>>> :> doc)]
            loaded == Workspace_load(f, 0, 0)
        IN  /\ fs = f
            /\ ws = Some(loaded.result.val)
            /\ clock = 0
            /\ nextId = loaded.used
            /\ res = Result("load", loaded.result, <<>>)
            /\ steps = 0
            /\ call = NoCall

NextValidate ==
    \/ validate
    \/ \E p \in EditProjects, t \in EditTitles, st \in Status :
           update_action_status(p, t, st)

SpecValidate == InitValidate /\ [][NextValidate]_vars

\* the files and directories under the root become read-only, so that
\* fs::write and fs::create_dir_all fail from now on
deny_writes ==
    /\ Step
    /\ fs.writable
    /\ fs' = [fs EXCEPT !.writable = FALSE]
    /\ UNCHANGED <<ws, clock, nextId, res, call>>

\* one project and two actions, created and updated while writes may fail
NextFaults ==
    \/ Tick
    \/ deny_writes
    \/ \E p \in EditProjects, t \in MetaTitles, priority \in BOOLEAN :
           create_action(p, t, priority)
    \/ \E p \in EditProjects, t \in MetaTitles, st \in StatusInputs :
           update_action_status(p, t, st)
    \/ \E p \in EditProjects, t \in MetaTitles, priority \in BOOLEAN :
           set_action_priority(p, t, priority)

SpecFaults == InitReady /\ [][NextFaults]_vars

\* the root when the program starts: no directory yet, a directory in which
\* the user keeps a README.md of their own, or a workspace that init made
\* and whose README.md the user has rewritten since
InitDir ==
    /\ fs \in {EmptyFs,
               [EmptyFs EXCEPT !.root = TRUE,
                               !.rootFiles = (S_Readme :> <<"m","i","n","e","\n">>)],
               [Workspace_init(EmptyFs).fs EXCEPT
                   !.rootFiles[S_Readme] = <<"m","i","n","e","\n">>]}
    /\ ws = None
    /\ clock = 0
    /\ nextId = 0
    /\ res = NoResult
    /\ steps = 0
    /\ call = NoCall

SpecInit == InitDir /\ [][NextEdit]_vars

(***************************************************************************)
(* The pure functions of status.rs: a call is drawn in the initial state   *)
(* and the function is applied to it.                                      *)
(***************************************************************************)
Idle ==
    /\ fs = EmptyFs
    /\ ws = None
    /\ clock = 0
    /\ nextId = 0
    /\ res = NoResult
    /\ steps = 0

Pending(fn, arg) == [fn |-> fn, arg |-> arg, ret |-> <<>>, done |-> FALSE]

Return(v) ==
    /\ ~call.done
    /\ call' = [call EXCEPT !.ret = v, !.done = TRUE]
    /\ UNCHANGED <<fs, ws, clock, nextId, res, steps>>

\* every way of writing a name in upper and lower case
RECURSIVE CaseVariants(_)
CaseVariants(name) ==
    IF name = <<>> THEN {<<>>}
    ELSE {<<c>> \o rest : c \in {name[1], UpperChar(name[1])},
                          rest \in CaseVariants(Tail(name))}

\* strings that are close to a status name and are none
NearMisses(name) ==
    {<<>>, name \o <<" ">>, <<" ">> \o name, name \o <<"s">>,
     SubSeq(name, 1, Len(name) - 1), to_lowercase(replace(name, "e", "3")),
     <<"x">> \o Tail(name)}

StatusStrings ==
    UNION {CaseVariants(StatusToString(st)) \cup NearMisses(StatusToString(st)) :
              st \in Status}

\* how many statuses a chain of next_status calls may visit
MaxChain == 8

InitStatus ==
    /\ Idle
    /\ call \in {Pending("from_str", s) : s \in StatusStrings}
            \cup {Pending(fn, st) :
                    fn \in {"to_string", "next_status", "previous_status",
                            "required_outputs"},
                    st \in Status}
            \cup {[fn |-> "next_status*", arg |-> st, ret |-> <<st>>, done |-> FALSE] :
                    st \in Status}

call_from_str == call.fn = "from_str" /\ Return(from_str(call.arg))
call_to_string == call.fn = "to_string" /\ Return(StatusToString(call.arg))
call_next_status == call.fn = "next_status" /\ Return(next_status(call.arg))
call_previous_status == call.fn = "previous_status" /\ Return(previous_status(call.arg))
call_required_outputs == call.fn = "required_outputs" /\ Return(required_outputs(call.arg))

\* next_status applied again to the status it returned last; ret holds the
\* statuses visited, and the chain is done when next_status returns None
call_next_status_repeated ==
    /\ call.fn = "next_status*"
    /\ ~call.done
    /\ Len(call.ret) < MaxChain
    /\ LET next == next_status(call.ret[Len(call.ret)])
       IN  call' = IF IsSome(next)
                   THEN [call EXCEPT !.ret = Append(@, Unwrap(next))]
                   ELSE [call EXCEPT !.done = TRUE]
    /\ UNCHANGED <<fs, ws, clock, nextId, res, steps>>

NextStatus ==
    \/ call_next_status_repeated
    \/ call_from_str
    \/ call_to_string
    \/ call_next_status
    \/ call_previous_status
    \/ call_required_outputs

SpecStatus == InitStatus /\ [][NextStatus]_vars

(***************************************************************************)
(* The serializer and the parser: an Action is drawn in the initial state, *)
(* rendered by to_markdown and read back by parse.                         *)
(***************************************************************************)
\* the texts a section is drawn from
SectionTexts ==
    { <<"x">>,
      <<" ","x"," ","\n">>,
      <<"x","\n","\n","y">>,
      <<>>,
      <<"x","\n","#","#"," ","N","o","t","e","s","\n","y">> }

SectionValues == {None} \cup {Some(text) : text \in SectionTexts}

DrawnActions ==
    {[ActionNew(<<"p">>, <<"a","_","b">>, FALSE, 0, 0) EXCEPT
         !.file_path = <<<<"p">>, <<"a","_","b",".","m","d">>>>,
         !.notes = n, !.statement_of_action = sa, !.statement_of_inputs = si,
         !.statement_of_design = sd, !.analysis_of_impact = ai] :
       n \in SectionValues, sa \in SectionValues, si \in SectionValues,
       sd \in SectionValues, ai \in SectionValues}

InitDoc ==
    /\ Idle
    /\ call \in {Pending("to_markdown;parse", a) : a \in DrawnActions}

\* parse(to_markdown(a))
call_to_markdown_parse ==
    /\ call.fn = "to_markdown;parse"
    /\ Return(parse(to_markdown(call.arg)))

NextDoc == call_to_markdown_parse

SpecDoc == InitDoc /\ [][NextDoc]_vars

(***************************************************************************)
(* The parser alone: a text is drawn in the initial state, built from      *)
(* frontmatter lines and body lines, and read by parse.                    *)
(***************************************************************************)
MaxFrontLines == 2
MaxBodyLines == 6

FrontLines == {<<"k",":"," ","v">>, <<"t",":"," ","T","0",":","1">>, <<"j","u","n","k">>, <<" ","k"," ",":"," ","w"," ">>, <<":">>, <<"#","#"," ","A",":"," ","b">>}
BodyLines == {<<"#","#"," ","A">>, <<"#","#"," "," ","B"," ">>, <<"x">>, <<" ","y"," ">>}

\* the text of a sequence of lines, each ended by "\n"
RECURSIVE Text(_)
Text(ls) == IF ls = <<>> THEN <<>> ELSE ls[1] \o <<"\n">> \o Text(Tail(ls))

SeqsUpTo(S, n) == UNION {[1..k -> S] : k \in 0..n}

\* frontmatter blocks: none, closed, or left open
Fronts ==
    {<<>>} \cup
    UNION {{<<S_Dashes>> \o ls \o <<S_Dashes>>, <<S_Dashes>> \o ls} :
              ls \in SeqsUpTo(FrontLines, MaxFrontLines)}

ParseTexts ==
    LET short == {Text(f \o b) : f \in Fronts, b \in SeqsUpTo(BodyLines, 1)}
        long == {Text(f \o b) :
                   f \in {<<>>, <<S_Dashes, <<"k",":"," ","v">>, S_Dashes>>},
                   b \in SeqsUpTo(BodyLines, MaxBodyLines)}
        \* the same texts with the last line left unterminated
        open == {SubSeq(t, 1, Len(t) - 1) : t \in short}
    IN  short \cup long \cup open

InitParse ==
    /\ Idle
    /\ call \in {Pending("parse", t) : t \in ParseTexts}

call_parse == call.fn = "parse" /\ Return(parse(call.arg))

NextParse == call_parse

SpecParse == InitParse /\ [][NextParse]_vars

(***************************************************************************)
(* One Action and its methods: the Action is the one Project::create_action*)
(* has made and saved; its setters, save and to_markdown are called on it. *)
(***************************************************************************)
\* Project::create_action("a_b", false) in a new project "p", at time 0
Created ==
    LET made == Project_new(<<"p">>, Workspace_init(EmptyFs).fs)
    IN  Project_create_action(made.result.val, <<"a","_","b">>, FALSE, made.fs, 0, 0)

\* a method call that has returned: its result and the Action after it
Method(fn, arg, ret, self) ==
    call' = [fn |-> fn, arg |-> arg, ret |-> ret, done |-> TRUE, self |-> self]

InitAction ==
    /\ fs = Created.fs
    /\ ws = None
    /\ clock \in 0..MaxTime
    /\ nextId = 1
    /\ res = NoResult
    /\ steps = 0
    /\ call = [fn |-> "create_action", arg |-> <<>>, ret |-> <<>>, done |-> TRUE,
               self |-> Created.result.val]

\* the section names and contents update_section is called with
UpdateNames == {<<"n","o","t","e","s">>, S_AnalysisOfImpact, S_Title}
UpdateContents == {None, Some(<<>>), Some(<<"x">>)}

call_set_status(status) ==
    /\ Step
    /\ Method("set_status", status, <<>>, set_status(call.self, status, clock))
    /\ UNCHANGED <<fs, ws, clock, nextId, res>>

call_set_priority(priority) ==
    /\ Step
    /\ Method("set_priority", priority, <<>>, set_priority(call.self, priority, clock))
    /\ UNCHANGED <<fs, ws, clock, nextId, res>>

call_update_section(section, content) ==
    /\ Step
    /\ Method("update_section", [section |-> section, content |-> content], <<>>,
              update_section(call.self, section, content, clock))
    /\ UNCHANGED <<fs, ws, clock, nextId, res>>

call_save ==
    LET saved == save(call.self, fs, clock)
    IN  /\ Step
        /\ Method("save", <<>>, saved.result, saved.action)
        /\ fs' = saved.fs
        /\ UNCHANGED <<ws, clock, nextId, res>>

call_to_markdown ==
    /\ Step
    /\ Method("to_markdown", <<>>, to_markdown(call.self), call.self)
    /\ UNCHANGED <<fs, ws, clock, nextId, res>>

\* Action::from_file(self.file_path): the Action is read back from its file
call_reload_from_file ==
    LET loaded == from_file(fs.files[call.self.file_path], call.self.file_path,
                            nextId, clock)
    IN  /\ Step
        /\ Method("from_file", call.self.file_path, loaded, loaded)
        /\ UNCHANGED <<fs, ws, clock, nextId, res>>

NextAction ==
    \/ Tick
    \/ call_reload_from_file
    \/ call_set_status("Design")
    \/ call_set_priority(TRUE)
    \/ \E section \in UpdateNames, content \in UpdateContents :
           call_update_section(section, content)
    \/ call_save
    \/ call_to_markdown

SpecAction == InitAction /\ [][NextAction]_vars

(***************************************************************************)
(* Action::from_file alone: a file content, a path and the time of the     *)
(* call are drawn in the initial state.                                    *)
(***************************************************************************)
MaxMetaLines == 2

MetaLines == {<<"i","d",":"," ","0","-","1">>, <<"c","r","e","a","t","e","d","_","a","t",":"," ","T","0",":","1">>, <<"c","r","e","a","t","e","d","_","a","t",":"," ","s","o","o","n">>, <<"u","p","d","a","t","e","d","_","a","t",":"," ","T","0",":","0">>, <<"t","i","t","l","e",":"," ","z","z">>, <<"p","r","o","j","e","c","t",":"," ","y","y">>, <<"s","t","a","t","u","s",":"," ","d","e","s","i","g","n">>, <<"p","r","i","o","r","i","t","y",":"," ","T","R","U","E">>, <<"i","d",":"," ","z","z">>, <<"s","t","a","t","u","s",":"," ","d","o","n","e">>, <<"p","r","i","o","r","i","t","y",":"," ","y","e","s">>}
FileBodies == {<<>>, <<"#"," ","O","t","h","e","r","\n","\n","#","p","r","o","j","e","c","t"," ","#","y","y"," ","#","t","e","s","t"," ","#","p","r","i","o","r","i","t","y","\n","\n","#","#"," ","N","o","t","e","s","\n","\n","x","\n","\n">>}
FileDocs ==
    {Text(<<S_Dashes>> \o m \o <<S_Dashes>>) \o b :
        m \in SeqsUpTo(MetaLines, MaxMetaLines), b \in FileBodies}
    \cup {Text(m) \o b : m \in SeqsUpTo(MetaLines, 1), b \in FileBodies}
FilePaths == {<<<<"p">>, <<"a","_","b",".","m","d">>>>, <<<<"Q"," ","r">>, <<"a",".","b",".","m","d">>>>, <<<<"p">>, <<"n","o","t","e","s">>>>}

InitFromFile ==
    /\ fs = EmptyFs
    /\ ws = None
    /\ clock \in 0..MaxTime
    /\ nextId = 0
    /\ res = NoResult
    /\ steps = 0
    /\ call \in {Pending("from_file", [content |-> c, path |-> q]) :
                    c \in FileDocs, q \in FilePaths}

call_from_file ==
    /\ call.fn = "from_file"
    /\ Return(from_file(call.arg.content, call.arg.path, nextId, clock))

NextFromFile == call_from_file

SpecFromFile == InitFromFile /\ [][NextFromFile]_vars

(***************************************************************************)
(* title_to_filename alone: a title is drawn in the initial state.         *)
(***************************************************************************)
MaxTitleLen == 3

TitleChars == {"A", "b", "1", " ", "/", "\\", ":", "*", "?", "\"", "<", ">", "|",
               "-", "_", ".", "!", "U+0130", "U+0307", "U+4F60"}

InitFilename ==
    /\ Idle
    /\ call \in {Pending("title_to_filename", t) : t \in SeqsUpTo(TitleChars, MaxTitleLen)}

call_title_to_filename ==
    call.fn = "title_to_filename" /\ Return(title_to_filename(call.arg))

NextFilename == call_title_to_filename

SpecFilename == InitFilename /\ [][NextFilename]_vars

(***************************************************************************)
(* Properties                                                              *)
(***************************************************************************)
\* the <<project name, title>> keys of the actions a workspace indexes
Indexed(w) ==
    UNION {{<<p, t>> : t \in DOMAIN w.projects[p].actions} : p \in DOMAIN w.projects}

ActionAt(w, x) == w.projects[x[1]].actions[x[2]]

\* the five sections of an action by name
SectionNames == {S_Notes, S_StatementOfAction, S_StatementOfInputs,
                 S_StatementOfDesign, S_AnalysisOfImpact}

SectionOf(a, name) ==
    CASE name = S_Notes             -> a.notes
      [] name = S_StatementOfAction -> a.statement_of_action
      [] name = S_StatementOfInputs -> a.statement_of_inputs
      [] name = S_StatementOfDesign -> a.statement_of_design
      [] name = S_AnalysisOfImpact  -> a.analysis_of_impact

NonEmpty(section) == IsSome(section) /\ Unwrap(section) # <<>>

\* the sections the specification requires of each status
RequiredSections(st) ==
    CASE st = "Discovery" -> {S_Notes, S_StatementOfAction, S_StatementOfInputs}
      [] st = "Design"    -> {S_StatementOfDesign}
      [] st = "Document"  -> {S_AnalysisOfImpact}
      [] OTHER            -> {}

\* C1: an action that was saved by create_action, update_action_status or
\* set_action_priority (its file holds what save wrote for it) is loaded by
\* Workspace::load with the status and the priority it had in memory.
C1_ReloadKeepsStatusAndPriority ==
    [][(load /\ ws # None /\ res'.ok) =>
          \A x \in Indexed(Unwrap(ws)) :
              LET a == ActionAt(Unwrap(ws), x)
              IN  (a.file_path \in DOMAIN fs.files
                   /\ fs.files[a.file_path] = to_markdown(a)) =>
                  \E y \in Indexed(Unwrap(ws')) :
                      LET b == ActionAt(Unwrap(ws'), y)
                      IN  /\ b.file_path = a.file_path
                          /\ b.status = a.status
                          /\ b.priority = a.priority]_vars

\* C2: parsing to_markdown(A) yields, for the five section names, exactly
\* the non-empty sections of A, each with its text trimmed.
C2_SectionRoundTrip ==
    (call.fn = "to_markdown;parse" /\ call.done) =>
        /\ call.ret.ok
        /\ \A name \in SectionNames :
               LET original == SectionOf(call.arg, name)
                   sections == call.ret.val.sections
               IN  IF NonEmpty(original)
                   THEN /\ name \in DOMAIN sections
                        /\ sections[name] = trim(Unwrap(original))
                   ELSE name \notin DOMAIN sections

\* C3: create_action fails with AlreadyExists when the file it computes for
\* the title exists, and then changes no file and no action index.
C3_DuplicateCreateFails ==
    [][\A p \in ProjectNames, t \in Titles, priority \in BOOLEAN :
          (create_action(p, t, priority)
           /\ <<p, to_lowercase(replace(t, " ", "_")) \o <<".","m","d">>>>
                  \in DOMAIN fs.files) =>
              /\ ~res'.ok
              /\ res'.err = "AlreadyExists"
              /\ fs' = fs
              /\ Indexed(Unwrap(ws')) = Indexed(Unwrap(ws))
              /\ \A x \in Indexed(Unwrap(ws)) :
                     ActionAt(Unwrap(ws'), x) = ActionAt(Unwrap(ws), x)]_vars

C3_Witness ==
    /\ res.op = "create_action"
    /\ res.err = "AlreadyExists"
    /\ Indexed(Unwrap(ws)) # {}

\* C4: validate fails whenever an indexed action lacks a non-empty section
\* that its status requires.
C4_ValidateRejectsEmptySections ==
    (res.op = "validate" /\ ws # None) =>
        ((\E x \in Indexed(Unwrap(ws)) :
             \E name \in RequiredSections(ActionAt(Unwrap(ws), x).status) :
                 ~NonEmpty(SectionOf(ActionAt(Unwrap(ws), x), name)))
         => ~res.ok)

\* the indexed actions in Document whose analysis_of_impact is absent
DocumentLackingImpact(w) ==
    {x \in Indexed(w) : /\ ActionAt(w, x).status = "Document"
                        /\ ActionAt(w, x).analysis_of_impact = None}

\* the indexed actions with a section absent that their status requires
LackingRequired(w) ==
    {x \in Indexed(w) :
        \E name \in RequiredSections(ActionAt(w, x).status) :
            SectionOf(ActionAt(w, x), name) = None}

C6_LoadNeedsMarker ==
    res.op = "load" =>
        /\ S_Marker \notin DOMAIN fs.rootFiles =>
               (~res.ok /\ res.err = "NotAWorkspace" /\ ws = None)
        /\ fs.root => (res.ok /\ ws # None)

C6_Witness ==
    /\ res.op = "load"
    /\ res.ok
    /\ Indexed(Unwrap(ws)) # {}
    /\ fs.metas # {}

\* a string written like a name, each letter in either case
IsCaseVariant(s, name) ==
    /\ Len(s) = Len(name)
    /\ \A i \in 1..Len(name) : s[i] \in {name[i], UpperChar(name[i])}

\* C7: from_str inverts Display on the 7 statuses, accepts every case
\* variant of a status name as that status, and answers InvalidStatus to
\* every other string.
C7_FromStrInvertsDisplay ==
    /\ (call.fn = "to_string" /\ call.done) =>
           (from_str(call.ret).ok /\ from_str(call.ret).val = call.arg)
    /\ (call.fn = "from_str" /\ call.done) =>
           LET named == {st \in Status : IsCaseVariant(call.arg, StatusToString(st))}
           IN  IF named = {}
               THEN ~call.ret.ok /\ call.ret.err = "InvalidStatus"
               ELSE call.ret.ok /\ named = {call.ret.val}

C7_Witness ==
    /\ call.fn = "from_str"
    /\ call.done
    /\ call.ret.ok
    /\ call.ret.val = "Published"
    /\ call.arg # to_lowercase(call.arg)

\* C8: next_status and previous_status invert each other wherever they are
\* defined; previous_status(Discovery) and next_status(Published) are None.
C8_NextPreviousInverse ==
    /\ (call.fn = "next_status" /\ call.done) =>
           IF call.arg = "Published" THEN call.ret = None
           ELSE IsSome(call.ret) /\ previous_status(Unwrap(call.ret)) = Some(call.arg)
    /\ (call.fn = "previous_status" /\ call.done) =>
           IF call.arg = "Discovery" THEN call.ret = None
           ELSE IsSome(call.ret) /\ next_status(Unwrap(call.ret)) = Some(call.arg)

C8_Witness ==
    /\ call.fn = "previous_status"
    /\ call.done
    /\ call.arg = "Test"
    /\ call.ret = Some("Implement")

\* C9: update_action_status on an indexed action succeeds for every status
\* and leaves the action in that status, whatever its status and sections.
C9_TransitionsUnrestricted ==
    [][\A p \in EditProjects, t \in EditTitles, st \in Status :
          (update_action_status(p, t, st) /\ <<p, t>> \in Indexed(Unwrap(ws))) =>
              /\ res'.ok
              /\ <<p, t>> \in Indexed(Unwrap(ws'))
              /\ ActionAt(Unwrap(ws'), <<p, t>>).status = st]_vars

C9_Witness ==
    /\ res.op = "update_action_status"
    /\ res.ok
    /\ \E x \in Indexed(Unwrap(ws)) :
           /\ ActionAt(Unwrap(ws), x).status = "Published"
           /\ ActionAt(Unwrap(ws), x).notes = None
           /\ ActionAt(Unwrap(ws), x).analysis_of_impact = None

\* C10 as amended: required_outputs depends on the status alone; Discovery
\* yields Title, Notes, Statement of Action, Statement of Inputs and
\* Statement of Specifications, Design yields Statement of Design, Document
\* yields Analysis of Impact, and the other statuses yield the empty list.
C10_RequiredOutputs ==
    (call.fn = "required_outputs" /\ call.done) =>
        call.ret = CASE call.arg = "Discovery" ->
                          <<S_Title, S_Notes, S_StatementOfAction,
                            S_StatementOfInputs, S_StatementOfSpecifications>>
                     [] call.arg = "Design" -> <<S_StatementOfDesign>>
                     [] call.arg = "Document" -> <<S_AnalysisOfImpact>>
                     [] OTHER -> <<>>

C10_Witness ==
    /\ call.fn = "required_outputs"
    /\ call.done
    /\ call.arg = "Discovery"
    /\ Len(call.ret) = 5

\* C10 as stated: Discovery yields exactly Notes, Statement of Action,
\* Statement of Inputs and the Specifications section.
C10_RequiredOutputsAsStated ==
    (call.fn = "required_outputs" /\ call.done) =>
        {call.ret[i] : i \in 1..Len(call.ret)} =
            CASE call.arg = "Discovery" ->
                     {S_Notes, S_StatementOfAction, S_StatementOfInputs,
                      S_StatementOfSpecifications}
              [] call.arg = "Design" -> {S_StatementOfDesign}
              [] call.arg = "Document" -> {S_AnalysisOfImpact}
              [] OTHER -> {}

\* C11: with a status filter that is absent or parses, list_actions returns
\* exactly the indexed actions that pass the project, status and priority
\* filters, each once, in ascending order of (project, title) by code point.
C11_ListActionsFiltersAndSorts ==
    (/\ res.op = "list_actions"
     /\ (IsSome(res.info.status_filter) => from_str(Unwrap(res.info.status_filter)).ok)) =>
        LET w == Unwrap(ws)
            out == res.info.actions
            expected ==
                {ActionAt(w, x) : x \in
                   {y \in Indexed(w) :
                      /\ IsSome(res.info.project_filter) =>
                             y[1] = Unwrap(res.info.project_filter)
                      /\ IsSome(res.info.status_filter) =>
                             ActionAt(w, y).status =
                                 from_str(Unwrap(res.info.status_filter)).val
                      /\ res.info.priority_only => ActionAt(w, y).priority}}
        IN  /\ res.ok
            /\ {out[i] : i \in 1..Len(out)} = expected
            /\ Len(out) = Cardinality(expected)
            /\ \A i, j \in 1..Len(out) : i < j =>
                   \/ StrLess(out[i].project, out[j].project)
                   \/ /\ out[i].project = out[j].project
                      /\ StrLess(out[i].title, out[j].title)

C11_Witness ==
    /\ res.op = "list_actions"
    /\ res.ok
    /\ IsSome(res.info.status_filter)
    /\ Len(res.info.actions) = 2
    /\ Cardinality(Indexed(Unwrap(ws))) = 3
    /\ res.info.actions[1].project = <<"Q"," ","r">>
    /\ res.info.actions[2].project = <<"p">>

\* C12: list_actions fails with an invalid-status error whenever the status
\* filter is given and is no status, whatever the workspace and the other
\* filters.
C12_ListActionsInvalidStatus ==
    (/\ res.op = "list_actions"
     /\ IsSome(res.info.status_filter)
     /\ ~from_str(Unwrap(res.info.status_filter)).ok) =>
        ~res.ok /\ res.err = "InvalidStatus"

\* the lines of a text that parse reads as frontmatter entries: those after
\* an opening "---" and before the next "---"
FrontmatterEnd(ls) ==
    IF ls = <<>> \/ trim(ls[1]) # S_Dashes THEN 0
    ELSE Min({i \in 2..Len(ls) : trim(ls[i]) = S_Dashes} \cup {Len(ls) + 1})

HasColon(line) == \E i \in 1..Len(line) : line[i] = ":"

\* the part of a line before, and after, its first ':'
BeforeColon(line) ==
    SubSeq(line, 1, Min({i \in 1..Len(line) : line[i] = ":"}) - 1)
AfterColon(line) ==
    SubSeq(line, Min({i \in 1..Len(line) : line[i] = ":"}) + 1, Len(line))

\* C13: parse returns Ok for every text; its metadata holds exactly the
\* frontmatter lines that contain ':', each split at its first ':' into a
\* trimmed key and a trimmed value (a later line of the same key replacing an
\* earlier one), and nothing for the other lines or without frontmatter.
C13_ParseIsTotal ==
    (call.fn = "parse" /\ call.done) =>
        LET ls == lines(call.arg)
            entries == {i \in 2..(FrontmatterEnd(ls) - 1) : HasColon(ls[i])}
            key(i) == trim(BeforeColon(ls[i]))
        IN  /\ call.ret.ok
            /\ DOMAIN call.ret.val.metadata = {key(i) : i \in entries}
            /\ \A i \in entries :
                   (\A j \in entries : j > i => key(j) # key(i)) =>
                       call.ret.val.metadata[key(i)] = trim(AfterColon(ls[i]))

C13_Witness ==
    /\ call.fn = "parse"
    /\ call.done
    /\ call.ret.ok
    /\ lines(call.arg) = <<S_Dashes, <<"t",":"," ","T","0",":","1">>, <<"j","u","n","k">>>>
    /\ DOMAIN call.ret.val.metadata = {<<"t">>}
    /\ call.ret.val.metadata[<<"t">>] = <<"T","0",":","1">>
    /\ call.ret.val.sections = EmptyMap

\* the lines after the frontmatter that are section headers
HeaderLines(ls) ==
    LET end == FrontmatterEnd(ls)
    IN  {i \in (end + 1)..Len(ls) :
            /\ Len(ls[i]) >= 3
            /\ SubSeq(ls[i], 1, 3) = <<"#","#"," ">>}

HeaderName(line) == trim(SubSeq(line, 4, Len(line)))

\* the lines under the header at line i, up to the next header
ContentUnder(ls, i) ==
    Text(SubSeq(ls, i + 1,
                Min({j \in HeaderLines(ls) : j > i} \cup {Len(ls) + 1}) - 1))

\* C14: parse maps every header name to the trimmed content under the last
\* header of that name; lines before the first header belong to no section.
C14_LastOccurrenceWins ==
    (call.fn = "parse" /\ call.done) =>
        LET ls == lines(call.arg)
            sections == call.ret.val.sections
            headers == HeaderLines(ls)
            name == [i \in headers |-> HeaderName(ls[i])]
        IN  /\ DOMAIN sections = {name[i] : i \in headers}
            /\ \A i \in headers :
                   (\A j \in headers : j > i => name[j] # name[i]) =>
                       sections[name[i]] = trim(ContentUnder(ls, i))

C14_Witness ==
    /\ call.fn = "parse"
    /\ call.done
    /\ lines(call.arg) = <<<<"x">>, <<"#","#"," ","A">>, <<"x">>,
                          <<"#","#"," "," ","B"," ">>, <<" ","y"," ">>,
                          <<"#","#"," ","A">>>>
    /\ call.ret.val.sections = (<<"A">> :> <<>>) @@ (<<"B">> :> <<"y">>)

\* C15: in the output of to_markdown a "## <Section>" header line appears
\* for a section if and only if the section has non-empty content, and the
\* header lines that appear are in the order Notes, Statement of Action,
\* Statement of Inputs, Statement of Design, Analysis of Impact.
C15_HeadersIffNonEmptyInOrder ==
    (call.fn = "to_markdown" /\ call.done) =>
        LET ls == lines(call.ret)
            order == <<S_Notes, S_StatementOfAction, S_StatementOfInputs,
                       S_StatementOfDesign, S_AnalysisOfImpact>>
            at(k) == {i \in 1..Len(ls) : ls[i] = <<"#","#"," ">> \o order[k]}
        IN  /\ \A k \in 1..5 :
                   at(k) # {} <=> NonEmpty(SectionOf(call.self, order[k]))
            /\ \A k, m \in 1..5 : k < m => \A i \in at(k), j \in at(m) : i < j

\* C16: every Action has updated_at >= created_at, whether from_file made
\* it from any file content or a setter or save changed it; and each setter
\* and save leaves updated_at at the current time.
C16_UpdatedNotBeforeCreated ==
    [][/\ (call'.fn = "from_file" /\ call'.done) =>
              call'.ret.updated_at >= call'.ret.created_at
       /\ (call' # call /\
           call'.fn \in {"set_status", "set_priority", "update_section", "save"}) =>
              /\ call'.self.updated_at = clock
              /\ call'.self.updated_at >= call'.self.created_at]_vars

\* the field of an Action that update_section targets for a section name,
\* compared without regard to case; none for any other name
TargetOf(section) ==
    LET l == [i \in 1..Len(section) |-> LowerChar(section[i])]
    IN  CASE l = <<"n","o","t","e","s">> -> {"notes"}
          [] l = <<"s","t","a","t","e","m","e","n","t"," ","o","f"," ","a","c","t","i","o","n">> -> {"statement_of_action"}
          [] l = <<"s","t","a","t","e","m","e","n","t"," ","o","f"," ","i","n","p","u","t","s">> -> {"statement_of_inputs"}
          [] l = <<"s","t","a","t","e","m","e","n","t"," ","o","f"," ","d","e","s","i","g","n">> -> {"statement_of_design"}
          [] l = <<"a","n","a","l","y","s","i","s"," ","o","f"," ","i","m","p","a","c","t">> -> {"analysis_of_impact"}
          [] OTHER -> {}

\* C17: set_status, set_priority and update_section leave the file system as
\* it was and change at most the targeted field and updated_at of the Action;
\* update_section with a name that is none of the five section names changes
\* no section.
C17_SettersChangeMemoryOnly ==
    [][(call' # call /\ call'.fn \in {"set_status", "set_priority", "update_section"}) =>
          LET target == CASE call'.fn = "set_status" -> {"status"}
                          [] call'.fn = "set_priority" -> {"priority"}
                          [] OTHER -> TargetOf(call'.arg.section)
          IN  /\ fs' = fs
              /\ DOMAIN call'.self = DOMAIN call.self
              /\ \A f \in (DOMAIN call.self) \ (target \cup {"updated_at"}) :
                     call'.self[f] = call.self[f]
              /\ call'.fn = "set_status" => call'.self.status = call'.arg
              /\ call'.fn = "set_priority" => call'.self.priority = call'.arg
              /\ call'.fn = "update_section" =>
                     \A f \in target : call'.self[f] = call'.arg.content]_vars

C17_Witness ==
    /\ call.fn = "update_section"
    /\ call.arg = [section |-> S_Title, content |-> Some(<<"x">>)]
    /\ call.self.updated_at = 1
    /\ call.self.notes = None
    /\ fs = Created.fs
    /\ fs.files[call.self.file_path] # to_markdown(call.self)

C19_IndexConsistent ==
    ws # None =>
        \A p \in DOMAIN Unwrap(ws).projects :
            LET project == Unwrap(ws).projects[p]
            IN  /\ project.name = p
                /\ \A t \in DOMAIN project.actions :
                       LET a == project.actions[t]
                       IN  /\ a.project = project.name
                           /\ \/ a.file_path[1] = project.path
                              \/ /\ Len(a.file_path[1]) > Len(project.path)
                                 /\ SubSeq(a.file_path[1], 1, Len(project.path) + 1)
                                        = project.path \o <<"/">>

\* C20: title_to_filename applied to its own result returns that result, and
\* its result holds no space and none of / \ : * ? " < > |.
C20_TitleToFilenameIdempotent ==
    (call.fn = "title_to_filename" /\ call.done) =>
        /\ title_to_filename(call.ret) = call.ret
        /\ \A i \in 1..Len(call.ret) :
               call.ret[i] \notin {" ", "/", "\\", ":", "*", "?", "\"", "<", ">", "|"}

\* C21: create_meta_graph fails with a not-found error and changes no
\* directory when the project or the action is not indexed; otherwise it
\* succeeds and returns the action's file path without its extension, that
\* path is a directory afterwards (has_meta_graph holds), and the workspace
\* in memory and every file are as before.
C21_MetaGraphCreated ==
    [][\A p \in EditProjects, t \in MetaTitles :
          create_meta_graph(p, t) =>
              IF <<p, t>> \in Indexed(Unwrap(ws))
              THEN LET a == ActionAt(Unwrap(ws), <<p, t>>)
                   IN  /\ res'.ok
                       /\ res'.info = meta_graph_path(a)
                       /\ has_meta_graph(a, fs')
                       /\ ws' = ws
                       /\ fs'.files = fs.files
              ELSE /\ ~res'.ok
                   /\ res'.err \in {"ProjectNotFound", "ActionNotFound"}
                   /\ fs' = fs
                   /\ ws' = ws]_vars

\* C22: Workspace::init on a root that init has initialized before leaves
\* the whole file system as it was: the marker file with the same content,
\* the README.md that exists (the user's own included), every project
\* directory and every action file; so Workspace::load reads the same
\* projects and actions after it as before it.
C22_InitIdempotent ==
    [][(init /\ S_Marker \in DOMAIN fs.rootFiles) =>
          /\ res'.ok
          /\ fs'.rootFiles[S_Marker] = fs.rootFiles[S_Marker]
          /\ S_Readme \in DOMAIN fs.rootFiles =>
                 fs'.rootFiles[S_Readme] = fs.rootFiles[S_Readme]
          /\ fs'.dirs = fs.dirs
          /\ fs'.files = fs.files
          /\ fs'.metas = fs.metas
          /\ Workspace_load(fs', nextId, clock) = Workspace_load(fs, nextId, clock)]_vars

C22_Witness ==
    /\ res.op = "init"
    /\ steps >= 3
    /\ fs.rootFiles[S_Readme] = <<"m","i","n","e","\n">>
    /\ fs.rootFiles[S_Marker] = S_MarkerContent
    /\ DOMAIN fs.files # {}
    /\ ws = Some([projects |-> EmptyMap])

\* C23: from_file returns an Action for every content. Each of id, status,
\* priority, created_at and updated_at is decided by the last frontmatter
\* line of its key alone: a well-formed value is taken from the file, and an
\* absent or malformed one gives a fresh Uuid, Discovery, false, and the time
\* of the call. A content without frontmatter gives Discovery, not priority.
C23_FieldsDefaultIndependently ==
    (call.fn = "from_file" /\ call.done) =>
        LET ls == lines(call.arg.content)
            field(k) ==
                LET at == {i \in 2..(FrontmatterEnd(ls) - 1) :
                              HasColon(ls[i]) /\ trim(BeforeColon(ls[i])) = k}
                IN  IF at = {} THEN None
                    ELSE Some(trim(AfterColon(
                             ls[CHOOSE i \in at : \A j \in at : j <= i])))
            time(k) ==
                IF IsSome(field(k)) /\ \E t \in 0..9 : to_rfc3339(t) = Unwrap(field(k))
                THEN CHOOSE t \in 0..9 : to_rfc3339(t) = Unwrap(field(k))
                ELSE clock
            named == IF IsSome(field(S_status))
                     THEN {st \in Status :
                             IsCaseVariant(Unwrap(field(S_status)), StatusToString(st))}
                     ELSE {}
        IN  /\ call.ret.id =
                   IF IsSome(field(S_id)) /\ \E n \in 0..9 : UuidToString(n) = Unwrap(field(S_id))
                   THEN CHOOSE n \in 0..9 : UuidToString(n) = Unwrap(field(S_id))
                   ELSE nextId
            /\ IF named = {} THEN call.ret.status = "Discovery"
               ELSE named = {call.ret.status}
            /\ call.ret.priority =
                   (IsSome(field(S_priority)) /\ IsCaseVariant(Unwrap(field(S_priority)), S_true))
            /\ call.ret.created_at = time(S_created_at)
            /\ call.ret.updated_at = time(S_updated_at)
            /\ FrontmatterEnd(ls) = 0 =>
                   (call.ret.status = "Discovery" /\ ~call.ret.priority)

C23_Witness ==
    /\ call.fn = "from_file"
    /\ call.done
    /\ Len(lines(call.arg.content)) >= 3
    /\ lines(call.arg.content)[2] = <<"s","t","a","t","u","s",":"," ","d","e","s","i","g","n">>
    /\ lines(call.arg.content)[3] = <<"c","r","e","a","t","e","d","_","a","t",":"," ","s","o","o","n">>
    /\ clock = 1
    /\ call.ret.status = "Design"
    /\ call.ret.created_at = 1
    /\ call.ret.updated_at = 1
    /\ call.ret.id = nextId
    /\ ~call.ret.priority

\* C24: after a successful create_action(p, t, priority) a file exists at
\* <path of p>/<t in lower case with '_' for ' '>.md; the index maps t to an
\* action in Discovery with that priority and the template texts in Notes,
\* Statement of Action and Statement of Inputs; the file holds exactly those
\* three sections; and no other file and no other index entry has changed.
C24_CreateActionPostcondition ==
    [][\A p \in ProjectNames, t \in Titles \cup PathTitles, priority \in BOOLEAN :
          (create_action(p, t, priority) /\ res'.ok) =>
              LET path == <<p, to_lowercase(replace(t, " ", "_")) \o <<".","m","d">>>>
                  old == IF p \in DOMAIN Unwrap(ws).projects
                         THEN {<<p, u>> : u \in DOMAIN Unwrap(ws).projects[p].actions}
                         ELSE {}
              IN  /\ path \in DOMAIN fs'.files
                  /\ <<p, t>> \in Indexed(Unwrap(ws'))
                  /\ LET a == ActionAt(Unwrap(ws'), <<p, t>>)
                     IN  /\ a.status = "Discovery"
                         /\ a.priority = priority
                         /\ a.notes = Some(S_TemplateNotes)
                         /\ a.statement_of_action = Some(S_TemplateAction)
                         /\ a.statement_of_inputs = Some(S_TemplateInputs)
                         /\ a.statement_of_design = None
                         /\ a.analysis_of_impact = None
                  /\ parse(fs'.files[path]).val.sections =
                         (S_Notes :> S_TemplateNotes)
                         @@ (S_StatementOfAction :> S_TemplateAction)
                         @@ (S_StatementOfInputs :> S_TemplateInputs)
                  /\ \A q \in DOMAIN fs.files :
                         q \in DOMAIN fs'.files /\ fs'.files[q] = fs.files[q]
                  /\ DOMAIN fs'.files = DOMAIN fs.files \cup {path}
                  /\ \A x \in Indexed(Unwrap(ws)) \ {<<p, t>>} :
                         /\ x \in Indexed(Unwrap(ws'))
                         /\ ActionAt(Unwrap(ws'), x) = ActionAt(Unwrap(ws), x)
                  /\ <<p, t>> \notin old]_vars

\* C25: every action that the workspace indexes under (P, T) before a
\* successful load (create_action having succeeded for P and T) is found by
\* get_action(P, T) on the reloaded workspace, with the same id.
C25_LookupSurvivesReload ==
    [][(load /\ res'.ok /\ ws # None) =>
          \A x \in Indexed(Unwrap(ws)) :
              LET r == Workspace_get_action(Unwrap(ws'), x[1], x[2])
              IN  r.ok /\ r.val.id = ActionAt(Unwrap(ws), x).id]_vars

\* C26: whatever setters, saves and reloads have run, the file changes only
\* in a successful save; the Action that from_file reads from it after a save
\* has the id and the created_at that create_action assigned and the time of
\* that save as updated_at; and a reload through from_file returns an Action
\* with that id and created_at and leaves the file as it is.
C26_IdAndCreatedAtStable ==
    [][LET path == call.self.file_path
           saved == call'.fn = "save" /\ call_save /\ call'.ret.ok
           after == from_file(fs'.files[path], path, nextId, clock)
       IN  /\ fs'.files[path] # fs.files[path] => saved
           /\ saved =>
                  /\ after.id = Created.result.val.id
                  /\ after.created_at = Created.result.val.created_at
                  /\ after.updated_at = clock
           /\ (call'.fn = "from_file" /\ call_reload_from_file) =>
                  /\ fs' = fs
                  /\ call'.self.id = Created.result.val.id
                  /\ call'.self.created_at = Created.result.val.created_at
                  /\ call'.self.updated_at =
                         parse_from_rfc3339(
                             parse(fs.files[path]).val.metadata[S_updated_at])[1]]_vars

C26_Witness ==
    /\ call.fn = "from_file"
    /\ clock = 1
    /\ call.self.id = 0
    /\ call.self.created_at = 0
    /\ call.self.updated_at = 1
    /\ fs.files[call.self.file_path] # Created.fs.files[call.self.file_path]

\* C27: validate looks at the sections required of each action's current
\* status and at no others: it succeeds exactly when those are present, so
\* it succeeds for an action in Implement, Test, Publish or Published with
\* no section at all, and for an action in Design whose Statement of Design
\* is present while the sections of Discovery are absent.
C27_ValidateNotCumulative ==
    (res.op = "validate" /\ Indexed(Unwrap(ws)) # {}) =>
        /\ res.ok <=>
               \A x \in Indexed(Unwrap(ws)) :
                   \A name \in RequiredSections(ActionAt(Unwrap(ws), x).status) :
                       IsSome(SectionOf(ActionAt(Unwrap(ws), x), name))
        /\ \A x \in Indexed(Unwrap(ws)) :
               LET a == ActionAt(Unwrap(ws), x)
               IN  /\ (Indexed(Unwrap(ws)) = {x}
                       /\ a.status \in {"Implement", "Test", "Publish", "Published"})
                          => res.ok
                   /\ (Indexed(Unwrap(ws)) = {x} /\ a.status = "Design"
                       /\ IsSome(a.statement_of_design)) => res.ok

C27_Witness ==
    /\ res.op = "validate"
    /\ res.ok
    /\ \E x \in Indexed(Unwrap(ws)) :
           LET a == ActionAt(Unwrap(ws), x)
           IN  /\ a.status = "Design"
               /\ a.statement_of_design = Some(<<"x">>)
               /\ a.notes = None
               /\ a.statement_of_action = None
               /\ a.statement_of_inputs = None
               /\ a.analysis_of_impact = None

\* C28: a chain of next_status calls from any status visits no status twice
\* and visits at most 7 statuses (6 steps), it can go on from every status
\* but Published, where next_status returns None and the chain ends; from
\* Discovery it visits Discovery, Design, Implement, Test, Document, Publish
\* and Published in that order.
C28_ChainLinearAcyclic ==
    call.fn = "next_status*" =>
        LET visited == call.ret
            order == <<"Discovery", "Design", "Implement", "Test", "Document",
                       "Publish", "Published">>
        IN  /\ \A i, j \in 1..Len(visited) : i < j => visited[i] # visited[j]
            /\ Len(visited) <= 7
            /\ call.done => visited[Len(visited)] = "Published"
            /\ visited[Len(visited)] # "Published" =>
                   IsSome(next_status(visited[Len(visited)]))
            /\ call.arg = "Discovery" => visited = SubSeq(order, 1, Len(visited))
            /\ (call.arg = "Discovery" /\ call.done) => visited = order

C28_Witness ==
    /\ call.fn = "next_status*"
    /\ call.done
    /\ call.arg = "Discovery"
    /\ Len(call.ret) = 7
    /\ call.ret[4] = "Test"

\* C29: after init and create_action calls alone, validate succeeds, on the
\* workspace in memory and on the workspace that load reads back from disk.
C29_CreatedWorkspaceValidates ==
    res.op = "validate" => res.ok

C29_Witness ==
    /\ res.op = "validate"
    /\ res.ok
    /\ Cardinality(Indexed(Unwrap(ws))) = 1
    /\ \E x \in Indexed(Unwrap(ws)) :
           LET a == ActionAt(Unwrap(ws), x)
           IN  /\ a.title = <<"a","_","b">>
               /\ lines(fs.files[a.file_path])[7] = <<"#"," ","A"," ","b">>
               /\ a.statement_of_inputs = Some(S_TemplateInputs)

\* C30: when the write fails in update_action_status or set_action_priority
\* on an indexed action, the call returns the error, the action in memory
\* has the new status or priority and updated_at at the time of the call,
\* and the file system is as before; when create_action fails, the index
\* holds the same actions as before and no file has changed.
C30_NoRollbackOnWriteFailure ==
    [][/\ \A p \in EditProjects, t \in MetaTitles, st \in StatusInputs :
              (/\ update_action_status(p, t, st)
               /\ <<p, t>> \in Indexed(Unwrap(ws))
               /\ ~fs.writable) =>
                  /\ ~res'.ok
                  /\ res'.err = "IOFailure"
                  /\ ActionAt(Unwrap(ws'), <<p, t>>).status = st
                  /\ ActionAt(Unwrap(ws'), <<p, t>>).updated_at = clock
                  /\ fs' = fs
       /\ \A p \in EditProjects, t \in MetaTitles, priority \in BOOLEAN :
              (/\ set_action_priority(p, t, priority)
               /\ <<p, t>> \in Indexed(Unwrap(ws))
               /\ ~fs.writable) =>
                  /\ ~res'.ok
                  /\ res'.err = "IOFailure"
                  /\ ActionAt(Unwrap(ws'), <<p, t>>).priority = priority
                  /\ ActionAt(Unwrap(ws'), <<p, t>>).updated_at = clock
                  /\ fs' = fs
       /\ \A p \in EditProjects, t \in MetaTitles, priority \in BOOLEAN :
              (create_action(p, t, priority) /\ ~res'.ok) =>
                  /\ Indexed(Unwrap(ws')) = Indexed(Unwrap(ws))
                  /\ \A x \in Indexed(Unwrap(ws)) :
                         ActionAt(Unwrap(ws'), x) = ActionAt(Unwrap(ws), x)
                  /\ fs'.files = fs.files]_vars

C30_Witness ==
    /\ res.op = "update_action_status"
    /\ res.err = "IOFailure"
    /\ ~fs.writable
    /\ clock = 1
    /\ \E x \in Indexed(Unwrap(ws)) :
           LET a == ActionAt(Unwrap(ws), x)
           IN  /\ a.status = "Design"
               /\ a.updated_at = 1
               /\ parse(fs.files[a.file_path]).val.metadata[S_updated_at] = to_rfc3339(0)
               /\ fs.files[a.file_path] =
                      to_markdown([a EXCEPT !.status = "Discovery", !.updated_at = 0])

\* C31: when the first line of a text is "---" and no later line is "---",
\* parse reads every later line as frontmatter: it returns no section, even
\* if lines of the text are "## <name>" headers, and every later line that
\* contains ':' gives the metadata an entry for the trimmed text before its
\* first ':', whose value is the trimmed text after it on the last such line.
C31_OpenFrontmatterTakesAll ==
    (call.fn = "parse" /\ call.done) =>
        LET ls == lines(call.arg)
        IN  (/\ Len(ls) >= 1
             /\ ls[1] = S_Dashes
             /\ \A i \in 2..Len(ls) : trim(ls[i]) # S_Dashes) =>
                /\ call.ret.ok
                /\ call.ret.val.sections = EmptyMap
                /\ \A i \in 2..Len(ls) :
                       HasColon(ls[i]) =>
                           /\ trim(BeforeColon(ls[i])) \in DOMAIN call.ret.val.metadata
                           /\ (\A j \in (i + 1)..Len(ls) :
                                   HasColon(ls[j]) =>
                                       trim(BeforeColon(ls[j])) # trim(BeforeColon(ls[i])))
                              => call.ret.val.metadata[trim(BeforeColon(ls[i]))]
                                     = trim(AfterColon(ls[i]))
                /\ \A k \in DOMAIN call.ret.val.metadata :
                       \E i \in 2..Len(ls) :
                           HasColon(ls[i]) /\ trim(BeforeColon(ls[i])) = k

C31_Witness ==
    /\ call.fn = "parse"
    /\ call.done
    /\ lines(call.arg) = <<S_Dashes, <<"#","#"," ","A",":"," ","b">>, <<"#","#"," ","A">>>>
    /\ call.ret.val.sections = EmptyMap
    /\ call.ret.val.metadata = (<<"#","#"," ","A">> :> <<"b">>)

====
